---- MODULE Spec2Model ----
(***************************************************************************)
(* ReGreet: the greetd client (src/client.rs) and the greeter model that   *)
(* drives it from the GUI event loop (src/gui/model.rs, component.rs).     *)
(*                                                                         *)
(* Processes:                                                              *)
(*   - the component runtime on the GLib main context: it takes one Input  *)
(*     or Command message at a time and awaits its handler to completion;  *)
(*   - the background tasks spawned by handle_greetd_response, which send  *)
(*     an empty auth response and post the result as a Command message;    *)
(*   - the task spawned by Drop for Greeter, which cancels the session.    *)
(* All of them reach the client through Arc<Mutex<GreetdClient>>.          *)
(* A handler is cut at its await points (lock acquisition, socket read);   *)
(* the code between two await points is one atomic step.                   *)
(***************************************************************************)
EXTENDS Integers, Sequences, FiniteSets, TLC

\* ---- bounds ----------------------------------------------------------
\* pending Input messages (clicks not yet handled by update)
MaxInputQ == 1
\* background auth-response tasks that are running or whose
\* HandleGreetdResponse message has not been handled yet
MaxBg == 1
\* pending ClearErr timers
MaxTimers == 1
\* operations called on the client by a caller that follows the
\* transition table (SpecClient)
MaxOps == 6

\* lines of a login.defs file (SpecLoginDefs)
MaxLines == 3
\* commands of a power menu (SpecPowerMenu)
MaxCommands == 3

\* ---- values ----------------------------------------------------------
AuthStatus == {"NotStarted", "InProgress", "Done"}

AuthMessageType == {"Secret", "Visible", "Info", "Error"}

ErrorType == {"AuthError", "Error"}

InputMode == {"None", "Secret", "Visible"}

DEMO_AUTH_MSG_OPT == "One-Time Password:"

DEMO_AUTH_MSG_PASSWD == "Password:"

DEMO_AUTH_MSG_ERROR == "pam_authenticate: AUTH_ERR"

DEMO_OTP == "0248"

DEMO_PASSWD == "pass"

\* text a broker may put in a message or an error description
BrokerTexts == {"msg"}

\* a text whose first character is not ASCII (it stands for "\'echec", whose
\* first character takes the two bytes C3 A9)
NonAsciiText == "<U+00E9>chec"

\* the texts of any broker: also an empty text and one that begins with a
\* multi-byte character
WideTexts == BrokerTexts \cup {"", NonAsciiText}

RespSuccess == [type |-> "Success", kind |-> "-", text |-> "-"]

RespAuthMessage(k, t) == [type |-> "AuthMessage", kind |-> k, text |-> t]

RespError(k, t) == [type |-> "Error", kind |-> k, text |-> t]

\* everything greetd may answer to a request
Response ==
    {RespSuccess}
    \cup {RespAuthMessage(k, t) : k \in AuthMessageType, t \in BrokerTexts}
    \cup {RespError(k, t) : k \in ErrorType, t \in BrokerTexts}

\* everything a broker may answer when its texts are arbitrary
ResponseWide ==
    {RespSuccess}
    \cup {RespAuthMessage(k, t) : k \in AuthMessageType, t \in WideTexts}
    \cup {RespError(k, t) : k \in ErrorType, t \in WideTexts}

\* text of the entry widget when Login is clicked
Inputs == {DEMO_OTP, DEMO_PASSWD, ""}

\* the texts a Login message can carry: the empty string when no entry is
\* visible; against greetd the text is opaque to the greeter and the
\* client, so one text stands for all; the demo client compares it with
\* its credentials
EntryTexts(mode, isDemo) ==
    IF mode = "None" \/ ~isDemo THEN {""} ELSE Inputs

\* what Greeter.sess_info, the manual-entry modes and the users/sessions
\* found on the system amount to for one handler.  sess_info is set by
\* every Login message (so it is Some whenever it is read); its content
\* and the manual-entry modes are the user's choice between two handlers,
\* so they are drawn when a handler starts and fixed while it runs.
\*   ok          a username and a session command are available
\*   no_user     no username is selected or entered (the session resolves)
\*   bad_manual  manual session entry whose text shlex cannot split
\*   no_cmd      the selected session (or login shell) is not found
\*   no_user_bad_manual  no username, and a manual session entry whose
\*               text shlex cannot split
InfoKinds == {"ok", "no_user", "bad_manual", "no_cmd", "no_user_bad_manual"}

Ops == {"create_session", "send_auth_response", "start_session", "cancel_session"}

VARIABLES
    demo,         \* GreetdClient.socket is None
    auth_status,  \* GreetdClient.auth_status
    lock,         \* holder of the Mutex around the client
    wire,         \* requests written to the socket whose response is unread
    mainPc,       \* position of the component runtime (update / update_cmd)
    inputQ,       \* Input messages sent by the widgets, not yet handled
    cmdQ,         \* Command messages sent by finished background tasks
    bgWaiting,    \* background tasks waiting for the lock
    bgReading,    \* background tasks between write and read
    dropTask,     \* the task spawned by Drop for Greeter
    updates,      \* Greeter.updates (input_mode, error, message, input)
    timers,       \* sleeping ClearErr tasks
    proc,         \* the process: running, exited or panicked
    last,         \* history: the client call made by the step just taken
    specStatus,   \* SpecClient: the transition table folded over the
                  \* responses so far
    nOps,         \* SpecClient: operations called so far
    cache,        \* Greeter.cache: last_user, and the last_user in the cache
                  \* file (SpecCache)
    loginDefs,    \* SpecLoginDefs: the lines of the login.defs file read
    normalUser,   \* SpecLoginDefs: the NormalUser parsed from them
    commands,     \* PowerMenu.commands: the confirm flag of each command;
                  \* SystemdPowerMenuConfig.actions
    menu,         \* PowerMenu.state / the SystemdPowerMenu model
    ran,          \* history: the message the menu handled in the step just
                  \* taken and the command or action it executed
    errors,       \* SpecErrors: the display_error calls so far and their
                  \* ClearErr timers
    idle,         \* SpecIdle: the State of the idle monitor, the place of run_idle_loop
    lru           \* SpecLru: Cache::user_to_last_sess and the cache file

\* the greeter and its client
greeterVars == <<demo, auth_status, lock, wire, mainPc, inputQ, cmdQ, bgWaiting,
                 bgReading, dropTask, updates, timers, proc, last,
                 specStatus, nOps, cache>>

\* the parts of the program that the greeter's handlers do not touch
otherVars == <<loginDefs, normalUser, commands, menu, ran, errors, idle, lru>>

\* the cache is not tracked in the specification at hand
NoCache == [last_user |-> "-", file |-> "-"]

\* a power menu is not part of the specification at hand
NoMenu == [state |-> "-", what |-> "-"]

\* ran when the step handled no message of a power menu
NoRun == [msg |-> "-", before |-> NoMenu, executed |-> "-"]

vars == <<greeterVars, otherVars>>

Idle == [at |-> "idle", op |-> "-", ctx |-> "-", input |-> "-", info |-> "-"]

\* last when the step made no client call.  Otherwise: the operation, the
\* task that called it, auth_status before the step (the lock is held
\* from the write to the read, so for the step that reads the response it
\* is the status the operation left at its entry), whether the request was
\* written to the socket, the type of the response read, how the call
\* ended so far and auth_status after the step.
\* ctx is the place in the greeter the call was made from, input the
\* payload of an auth response, resp the response the operation returned.
NoCall == [op |-> "-", by |-> "-", ctx |-> "-", input |-> "-", before |-> "-",
           wrote |-> FALSE, read |-> "-", out |-> "-",
           resp |-> [type |-> "-", kind |-> "-", text |-> "-"], after |-> "-",
           info |-> "-"]

\* Option<String>::None, the payload of the automatic auth response
NoInput == "<None>"

\* a failed socket write or read (std::io::Error)
IoErr == [type |-> "IoErr", kind |-> "-", text |-> "-"]

\* ---- GreetdClient (src/client.rs) -------------------------------------

\* GreetdClient::new: the state of a freshly constructed client
GreetdClient_new == "NotStarted"

\* the Request variant each operation writes
Request(op) ==
    CASE op = "create_session" -> "CreateSession"
      [] op = "send_auth_response" -> "PostAuthMessageResponse"
      [] op = "start_session" -> "StartSession"
      [] op = "cancel_session" -> "CancelSession"

\* demo mode: the canned answer of create_session
demo_create_session == RespAuthMessage("Secret", DEMO_AUTH_MSG_OPT)

\* a demo client that accepts a missing input as the password
Mut_demo_send_auth_response(input) ==
    IF input = DEMO_OTP THEN RespAuthMessage("Secret", DEMO_AUTH_MSG_PASSWD)
    ELSE IF input \in {DEMO_PASSWD, NoInput} THEN RespSuccess
    ELSE RespError("AuthError", DEMO_AUTH_MSG_ERROR)

\* demo mode: the canned answer of send_auth_response
demo_send_auth_response(input) ==
    IF input = DEMO_OTP THEN RespAuthMessage("Secret", DEMO_AUTH_MSG_PASSWD)
    ELSE IF input = DEMO_PASSWD THEN RespSuccess
    ELSE RespError("AuthError", DEMO_AUTH_MSG_ERROR)

\* create_session with the Error arm of send_auth_response
Mut_create_session_error(st, resp) ==
    CASE resp.type = "Success" -> "Done"
      [] resp.type = "AuthMessage" -> "InProgress"
      [] resp.type = "Error" -> "InProgress"

\* create_session that takes every answer for a prompt
Mut_create_session_success(st, resp) == "InProgress"

\* create_session: `match resp` on the response it is about to return
GreetdClient_create_session(st, resp) ==
    CASE resp.type = "Success" -> "Done"
      [] resp.type = "AuthMessage" -> "InProgress"
      [] resp.type = "Error" -> "NotStarted"

\* send_auth_response that treats a further prompt as the end of the
\* conversation
Mut_send_auth_response_chain(st, resp) ==
    CASE resp.type = "Success" -> "Done"
      [] resp.type = "AuthMessage" -> "Done"
      [] resp.type = "Error" -> "InProgress"

\* send_auth_response with the Error arm of create_session
Mut_send_auth_response_error(st, resp) ==
    CASE resp.type = "Success" -> "Done"
      [] resp.type = "AuthMessage" -> "InProgress"
      [] resp.type = "Error" -> "NotStarted"

\* send_auth_response: `match resp` on the response it is about to return
GreetdClient_send_auth_response(st, resp) ==
    CASE resp.type = "Success" -> "Done"
      [] resp.type = "AuthMessage" -> "InProgress"
      [] resp.type = "Error" -> "InProgress"

\* start_session that resets the status itself when greetd refuses
Mut_start_session_reset(st, resp) ==
    IF resp.type = "AuthMessage"
    THEN [out |-> "unimplemented", status |-> st]
    ELSE [out |-> resp.type,
          status |-> IF resp.type = "Error" THEN "NotStarted" ELSE st]

\* start_session without the AuthMessage check
Mut_start_session(st, resp) == [out |-> resp.type, status |-> st]

\* start_session, after the read: AuthMessage is unimplemented!(), any other
\* response is returned; auth_status is not assigned
GreetdClient_start_session(st, resp) ==
    IF resp.type = "AuthMessage"
    THEN [out |-> "unimplemented", status |-> st]
    ELSE [out |-> resp.type, status |-> st]

\* cancel_session that does not reset the status on entry
Mut_cancel_session_entry(st) == st

\* cancel_session that flips the status, so that a second call undoes the first
Mut_cancel_session_toggle(st) ==
    IF st = "NotStarted" THEN "InProgress" ELSE "NotStarted"

\* cancel_session, first statement: auth_status = NotStarted
GreetdClient_cancel_session_entry(st) == "NotStarted"

\* cancel_session without the AuthMessage check
Mut_cancel_session(st, resp) == [out |-> resp.type, status |-> st]

\* cancel_session, after the read: AuthMessage is unimplemented!(), any
\* other response is returned
GreetdClient_cancel_session(st, resp) ==
    IF resp.type = "AuthMessage"
    THEN [out |-> "unimplemented", status |-> st]
    ELSE [out |-> resp.type, status |-> st]

\* a client that refuses, with an Error of its own and without a round
\* trip, an operation that the status does not call for
Mut_ClientEnter(op, input, st, wok) ==
    LET st1 == IF op = "cancel_session"
               THEN GreetdClient_cancel_session_entry(st) ELSE st
        misuse == \/ op = "create_session" /\ st # "NotStarted"
                  \/ op = "send_auth_response" /\ st # "InProgress"
                  \/ op = "start_session" /\ st # "Done"
    IN  IF demo
        THEN CASE op = "create_session" ->
                    [fin |-> TRUE, wrote |-> FALSE, out |-> "AuthMessage",
                     resp |-> demo_create_session,
                     status |-> GreetdClient_create_session(st1, demo_create_session)]
               [] op = "send_auth_response" ->
                    LET r == demo_send_auth_response(input)
                    IN  [fin |-> TRUE, wrote |-> FALSE, out |-> r.type, resp |-> r,
                         status |-> GreetdClient_send_auth_response(st1, r)]
               [] OTHER ->
                    [fin |-> TRUE, wrote |-> FALSE, out |-> "Success",
                     resp |-> RespSuccess, status |-> st1]
        ELSE IF misuse
        THEN [fin |-> TRUE, wrote |-> FALSE, out |-> "Error",
              resp |-> RespError("Error", "msg"), status |-> st1]
        ELSE IF wok
        THEN [fin |-> FALSE, wrote |-> TRUE, out |-> "pending",
              resp |-> RespSuccess, status |-> st1]
        ELSE [fin |-> TRUE, wrote |-> FALSE, out |-> "io_write",
              resp |-> RespSuccess, status |-> st1]

\* The part of an operation up to its first await on the socket read.
\* wok: the socket write succeeds.  fin: the operation has returned.
ClientEnter(op, input, st, wok) ==
    LET st1 == IF op = "cancel_session"
               THEN GreetdClient_cancel_session_entry(st) ELSE st
    IN  IF demo
        THEN CASE op = "create_session" ->
                    [fin |-> TRUE, wrote |-> FALSE, out |-> "AuthMessage",
                     resp |-> demo_create_session,
                     status |-> GreetdClient_create_session(st1, demo_create_session)]
               [] op = "send_auth_response" ->
                    LET r == demo_send_auth_response(input)
                    IN  [fin |-> TRUE, wrote |-> FALSE, out |-> r.type, resp |-> r,
                         status |-> GreetdClient_send_auth_response(st1, r)]
               [] OTHER ->
                    [fin |-> TRUE, wrote |-> FALSE, out |-> "Success",
                     resp |-> RespSuccess, status |-> st1]
        ELSE IF wok
        THEN [fin |-> FALSE, wrote |-> TRUE, out |-> "pending",
              resp |-> RespSuccess, status |-> st1]
        ELSE [fin |-> TRUE, wrote |-> FALSE, out |-> "io_write",
              resp |-> RespSuccess, status |-> st1]

\* a client that forgets the session when the read of the response fails
Mut_ClientLeave(op, st, r) ==
    IF r = IoErr THEN [out |-> "io_read", resp |-> r, status |-> "NotStarted"]
    ELSE CASE op = "create_session" ->
                [out |-> r.type, resp |-> r,
                 status |-> GreetdClient_create_session(st, r)]
           [] op = "send_auth_response" ->
                [out |-> r.type, resp |-> r,
                 status |-> GreetdClient_send_auth_response(st, r)]
           [] op = "start_session" ->
                [out |-> GreetdClient_start_session(st, r).out, resp |-> r,
                 status |-> GreetdClient_start_session(st, r).status]
           [] op = "cancel_session" ->
                [out |-> GreetdClient_cancel_session(st, r).out, resp |-> r,
                 status |-> GreetdClient_cancel_session(st, r).status]

\* The part of an operation after Response::read_from: r is the response
\* read, or IoErr when the read fails (`?` returns the error).
ClientLeave(op, st, r) ==
    IF r = IoErr THEN [out |-> "io_read", resp |-> r, status |-> st]
    ELSE CASE op = "create_session" ->
                [out |-> r.type, resp |-> r,
                 status |-> GreetdClient_create_session(st, r)]
           [] op = "send_auth_response" ->
                [out |-> r.type, resp |-> r,
                 status |-> GreetdClient_send_auth_response(st, r)]
           [] op = "start_session" ->
                [out |-> GreetdClient_start_session(st, r).out, resp |-> r,
                 status |-> GreetdClient_start_session(st, r).status]
           [] op = "cancel_session" ->
                [out |-> GreetdClient_cancel_session(st, r).out, resp |-> r,
                 status |-> GreetdClient_cancel_session(st, r).status]

\* ---- the transition table of the session state machine ----------------

\* the operation is permitted in status st
Permitted(op, st) ==
    CASE op = "create_session" -> st = "NotStarted"
      [] op = "send_auth_response" -> st = "InProgress"
      [] op = "start_session" -> st = "Done"
      [] op = "cancel_session" -> TRUE

\* one row of the table: the new state for operation op answered by out.
\* start_session has no row that changes the state by itself (Success is
\* terminal, AuthMessage has no new state, Error becomes NotStarted once
\* the caller cancels); an operation without a response folds nothing.
Table(st, op, out) ==
    CASE op = "cancel_session" -> "NotStarted"
      [] op = "create_session" /\ out = "Success" -> "Done"
      [] op = "create_session" /\ out = "AuthMessage" -> "InProgress"
      [] op = "create_session" /\ out = "Error" -> "NotStarted"
      [] op = "send_auth_response" /\ out = "Success" -> "Done"
      [] op = "send_auth_response" /\ out = "AuthMessage" -> "InProgress"
      [] op = "send_auth_response" /\ out = "Error" -> "InProgress"
      [] OTHER -> st

\* ---- the Mutex and one client call -----------------------------------

\* a lock that never makes a task wait
Mut_LockFree == TRUE

\* Mutex::lock().await completes
LockFree == lock = "none"

\* `who` acquires the lock and runs operation op up to its first await;
\* e is ClientEnter's result
CallEnter(who, op, ctx, input, e) ==
    /\ LockFree
    /\ auth_status' = e.status
    /\ lock' = IF e.fin THEN lock ELSE who
    /\ wire' = IF e.out = "pending" THEN Append(wire, Request(op)) ELSE wire
    /\ last' = [op |-> op, by |-> who, ctx |-> ctx, input |-> input,
                before |-> auth_status,
                wrote |-> e.wrote, read |-> "-", out |-> e.out,
                resp |-> IF e.fin /\ e.out # "io_write" THEN e.resp
                         ELSE NoCall.resp,
                after |-> e.status, info |-> "-"]

\* a caller that keeps the MutexGuard after its operation has returned
Mut_CallLeave(who, op, ctx, input, f) ==
    /\ auth_status' = f.status
    /\ lock' = who
    /\ wire' = Tail(wire)
    /\ last' = [op |-> op, by |-> who, ctx |-> ctx, input |-> input,
                before |-> auth_status,
                wrote |-> TRUE, read |-> f.resp.type, out |-> f.out,
                resp |-> IF f.out \in {"io_read", "unimplemented"}
                         THEN NoCall.resp ELSE f.resp,
                after |-> f.status, info |-> "-"]

\* `who` gets the result of the socket read, finishes the operation and
\* drops the MutexGuard; f is ClientLeave's result
CallLeave(who, op, ctx, input, f) ==
    /\ auth_status' = f.status
    /\ lock' = "none"
    /\ wire' = Tail(wire)
    /\ last' = [op |-> op, by |-> who, ctx |-> ctx, input |-> input,
                before |-> auth_status,
                wrote |-> TRUE, read |-> f.resp.type, out |-> f.out,
                resp |-> IF f.out \in {"io_read", "unimplemented"}
                         THEN NoCall.resp ELSE f.resp,
                after |-> f.status, info |-> "-"]

\* errors when the step handled neither a display_error nor a ClearErr
NoErrRan == [msg |-> "-", timer |-> 0, cleared |-> 0]

\* no display_error call so far.  count: the calls so far, numbered from 1;
\* shown: the call whose text updates.error holds (0: None); pending: the
\* calls whose ClearErr has not been handled, in the order of their
\* timers; ran: what the step just taken did
NoErrors == [count |-> 0, shown |-> 0, pending |-> <<>>, ran |-> NoErrRan]

\* idle.ran when the step dispatched no event
NoIdleRan == [event |-> "-", was_idle |-> FALSE, prev |-> "-", sent |-> "-",
              to |-> {}, destroyed |-> FALSE, created |-> FALSE]

\* the idle monitor is not part of the specification at hand
NoIdle == [phase |-> "-"]

\* lru.ran when no operation of the cache has run
NoLruRan == [op |-> "-", key |-> 0, before |-> <<>>, evicted |-> 0]

\* the cache of last sessions is not part of the specification at hand
NoLru == [cap |-> 0]

\* ---- Greeter (src/gui/model.rs) ---------------------------------------

\* result of a synchronous stretch of a handler: the new updates, the
\* background tasks and ClearErr timers it spawned, and how it goes on
Step(upd, spawn, errs, next, op, ctx) ==
    [updates |-> upd, spawn |-> spawn, errs |-> errs, next |-> next,
     op |-> op, ctx |-> ctx]

\* number of bytes of the first character of a text in UTF-8 (0: no
\* character)
FirstCharLen(t) ==
    CASE t = "" -> 0
      [] t = NonAsciiText -> 2
      [] OTHER -> 1

\* capitalize slices string[0..1] and string[1..]: byte index 1 has to be
\* within the string and on a character boundary, or the slice panics
capitalize_ok(t) == FirstCharLen(t) = 1

\* capitalize: the first character in upper case, then the rest
capitalize(t) ==
    CASE t = "msg" -> "Msg"
      [] t = DEMO_AUTH_MSG_ERROR -> "Pam_authenticate: AUTH_ERR"
      [] OTHER -> t

\* display_error: set updates.error and schedule one ClearErr
display_error(upd, text) == [upd EXCEPT !.error = text]

\* get_current_username() is Some
HasUser(info) == info \notin {"no_user", "no_user_bad_manual"}

\* manual_sess_mode with a sess_text for which shlex::split is None
BadManual(info) == info \in {"bad_manual", "no_user_bad_manual"}

\* start_session up to the lock: resolve the session command, or show an
\* error and return
Greeter_start_session(upd, info) ==
    CASE BadManual(info) ->
            Step(display_error(upd, "Invalid session command"), 0, 1,
                 "return", "-", "-")
      [] info = "no_cmd" ->
            Step(display_error(upd, "No session found"), 0, 1,
                 "return", "-", "-")
      [] OTHER -> Step(upd, 0, 0, "call", "start_session", "-")

\* a create_session that leaves the check of the session command to
\* start_session
Mut_Greeter_create_session(upd, info) ==
    CASE ~HasUser(info) -> Step(upd, 0, 0, "return", "-", "-")
      [] OTHER -> Step(upd, 0, 0, "call", "create_session", "-")

\* create_session up to the lock: no username, or an invalid manual
\* session command, sends nothing
Greeter_create_session(upd, info) ==
    CASE ~HasUser(info) -> Step(upd, 0, 0, "return", "-", "-")
      [] HasUser(info) /\ BadManual(info) ->
            Step(display_error(upd, "Invalid session command"), 0, 1,
                 "return", "-", "-")
      [] OTHER -> Step(upd, 0, 0, "call", "create_session", "-")

\* handle_greetd_response that only displays an authentication error
Mut_handle_greetd_response_auth_error(upd, resp, info) ==
    CASE resp.type = "Success" -> Greeter_start_session(upd, info)
      [] resp.type = "AuthMessage" /\ resp.kind \in {"Secret", "Visible"} ->
            Step([upd EXCEPT !.input_mode = resp.kind, !.input = ""],
                 0, 0, "return", "-", "-")
      [] resp.type = "AuthMessage" /\ resp.kind = "Info" ->
            Step([upd EXCEPT !.input_mode = "None", !.message = resp.text],
                 1, 0, "return", "-", "-")
      [] resp.type = "AuthMessage" /\ resp.kind = "Error" ->
            IF ~capitalize_ok(resp.text)
            THEN Step(upd, 0, 0, "panic", "-", "-")
            ELSE Step(display_error([upd EXCEPT !.input_mode = "None",
                                                !.message = "default"],
                                    capitalize(resp.text)),
                      1, 1, "return", "-", "-")
      [] resp.type = "Error" ->
            IF ~capitalize_ok(resp.text)
            THEN Step(upd, 0, 0, "panic", "-", "-")
            ELSE Step(display_error(upd, "Login failed: " \o capitalize(resp.text)),
                      0, 1, "return", "-", "-")

\* handle_greetd_response
handle_greetd_response(upd, resp, info) ==
    CASE resp.type = "Success" -> Greeter_start_session(upd, info)
      [] resp.type = "AuthMessage" /\ resp.kind \in {"Secret", "Visible"} ->
            Step([upd EXCEPT !.input_mode = resp.kind, !.input = ""],
                 0, 0, "return", "-", "-")
      [] resp.type = "AuthMessage" /\ resp.kind = "Info" ->
            Step([upd EXCEPT !.input_mode = "None", !.message = resp.text],
                 1, 0, "return", "-", "-")
      [] resp.type = "AuthMessage" /\ resp.kind = "Error" ->
            IF ~capitalize_ok(resp.text)
            THEN Step(upd, 0, 0, "panic", "-", "-")
            ELSE Step(display_error([upd EXCEPT !.input_mode = "None",
                                                !.message = "default"],
                                    capitalize(resp.text)),
                      1, 1, "return", "-", "-")
      [] resp.type = "Error" /\ resp.kind = "AuthError" ->
            IF ~capitalize_ok(resp.text)
            THEN Step(upd, 0, 0, "panic", "-", "-")
            ELSE Step(display_error(upd, "Login failed: " \o capitalize(resp.text)),
                      0, 1, "call", "cancel_session", "auth_error")
      [] resp.type = "Error" /\ resp.kind = "Error" ->
            IF ~capitalize_ok(resp.text)
            THEN Step(upd, 0, 0, "panic", "-", "-")
            ELSE Step(display_error(upd, "Login failed: " \o capitalize(resp.text)),
                      0, 1, "return", "-", "-")

\* a cancel_click_handler that leaves the message of the broker in place
Mut_cancel_click_handler(upd, ctx) ==
    LET u == [upd EXCEPT !.input = "", !.input_mode = "None"]
    IN  CASE ctx = "start_error" ->
                Step(display_error(u, "Failed to start session"), 0, 1,
                     "return", "-", "-")
          [] ctx = "init" -> Step(upd, 0, 0, "return", "-", "-")
          [] OTHER -> Step(u, 0, 0, "return", "-", "-")

\* cancel_click_handler after cancel_session has returned (an Err is only
\* logged), followed by what its caller still does; init() (ctx "init")
\* calls cancel_session itself and only logs an Err
cancel_click_handler(upd, ctx) ==
    LET u == [upd EXCEPT !.input = "", !.input_mode = "None",
                         !.message = "default"]
    IN  CASE ctx = "start_error" ->
                Step(display_error(u, "Failed to start session"), 0, 1,
                     "return", "-", "-")
          [] ctx = "init" -> Step(upd, 0, 0, "return", "-", "-")
          [] OTHER -> Step(u, 0, 0, "return", "-", "-")

\* an init() that unwraps the result of its cancel_session
Mut_AfterCall_init_cancel(upd, info, op, ctx, out, resp) ==
    CASE op \in {"create_session", "send_auth_response"} ->
            IF out \in {"io_write", "io_read"}
            THEN Step(upd, 0, 0, "panic", "-", "-")
            ELSE handle_greetd_response(upd, resp, info)
      [] op = "start_session" ->
            CASE out = "Success" -> Step(upd, 0, 0, "exit", "-", "-")
              [] out = "Error" ->
                    Step(upd, 0, 0, "call", "cancel_session", "start_error")
              [] OTHER -> Step(upd, 0, 0, "panic", "-", "-")
      [] op = "cancel_session" ->
            IF out = "unimplemented"
               \/ (ctx = "init" /\ out \in {"io_write", "io_read"})
            THEN Step(upd, 0, 0, "panic", "-", "-")
            ELSE cancel_click_handler(upd, ctx)

\* a start_session that shows the error of a refused StartSession and
\* leaves the session as it is
Mut_AfterCall_start_error(upd, info, op, ctx, out, resp) ==
    CASE op \in {"create_session", "send_auth_response"} ->
            IF out \in {"io_write", "io_read"}
            THEN Step(upd, 0, 0, "panic", "-", "-")
            ELSE handle_greetd_response(upd, resp, info)
      [] op = "start_session" ->
            CASE out = "Success" -> Step(upd, 0, 0, "exit", "-", "-")
              [] out = "Error" ->
                    Step(display_error(upd, "Failed to start session"), 0, 1,
                         "return", "-", "-")
              [] OTHER -> Step(upd, 0, 0, "panic", "-", "-")
      [] op = "cancel_session" ->
            IF out = "unimplemented"
            THEN Step(upd, 0, 0, "panic", "-", "-")
            ELSE cancel_click_handler(upd, ctx)

\* what a handler does with the result of the client call it awaited
AfterCall(upd, info, op, ctx, out, resp) ==
    CASE op \in {"create_session", "send_auth_response"} ->
            IF out \in {"io_write", "io_read"}
            THEN Step(upd, 0, 0, "panic", "-", "-")
            ELSE handle_greetd_response(upd, resp, info)
      [] op = "start_session" ->
            CASE out = "Success" -> Step(upd, 0, 0, "exit", "-", "-")
              [] out = "Error" ->
                    Step(upd, 0, 0, "call", "cancel_session", "start_error")
              [] OTHER -> Step(upd, 0, 0, "panic", "-", "-")
      [] op = "cancel_session" ->
            IF out = "unimplemented"
            THEN Step(upd, 0, 0, "panic", "-", "-")
            ELSE cancel_click_handler(upd, ctx)

\* ---- the processes ---------------------------------------------------

\* no NormalUser has been parsed yet
NotParsed == [uid_min |-> -1, uid_max |-> -1]

\* the parts of the program outside the specification at hand are at rest
OtherIdle ==
    /\ loginDefs = <<>>
    /\ normalUser = NotParsed
    /\ commands = <<>>
    /\ menu = NoMenu
    /\ ran = NoRun
    /\ errors = NoErrors
    /\ idle = NoIdle
    /\ lru = NoLru

\* the process runs: it has not exited, panicked on the main thread or
\* returned from main
Running == proc = "running"

\* the Greeter has been dropped: the component runtime has stopped
Dropped == dropTask # "none"

\* Cache::default(): no last user; no cache file yet
Cache_default == [last_user |-> "None", file |-> "None"]

\* Cache::set_last_user
Cache_set_last_user(c, user) == [c EXCEPT !.last_user = user]

\* Cache::save, when the file could be written
Cache_save(c) == [c EXCEPT !.file = c.last_user]

\* the username get_current_username() returns when there is one
CurrentUser == "user"

\* start_session between get_current_session_cmd and the lock: the current
\* user becomes the cache's last user and the cache is saved (an Err of
\* save is only logged); the cache is left alone where it is not tracked
start_session_cache(c, info) ==
    IF c = NoCache THEN {c}
    ELSE LET c1 == IF HasUser(info) THEN Cache_set_last_user(c, CurrentUser)
                   ELSE c
         IN  {Cache_save(c1), c1}

\* the component runtime continues as the stretch R of a handler says
ApplyStep(R, input, info) ==
    /\ bgWaiting + bgReading + Len(cmdQ') + R.spawn <= MaxBg
    /\ timers + R.errs <= MaxTimers
    /\ updates' = R.updates
    /\ bgWaiting' = bgWaiting + R.spawn
    /\ timers' = timers + R.errs
    /\ mainPc' = CASE R.next = "call" ->
                      [at |-> "lock", op |-> R.op, ctx |-> R.ctx, input |-> input,
                       info |-> IF R.op \in {"create_session", "send_auth_response"}
                                THEN info ELSE "-"]
                   [] R.next = "exit" -> [Idle EXCEPT !.at = "exit"]
                   [] OTHER -> Idle
    /\ proc' = IF R.next = "panic" THEN "panicked" ELSE proc
    /\ cache' \in IF R.next = "call" /\ R.op = "start_session"
                  THEN start_session_cache(cache, info)
                  ELSE {cache}

\* the user clicks Login (or activates the entry): the message carries the
\* text of the visible entry, or the empty string when none is visible.
\* The view shows updates as of the end of the last handler, and a handler
\* changes input_mode only in its last stretch, so updates.input_mode is
\* what the widgets show.
ClickLogin(input) ==
    /\ Running /\ ~Dropped
    /\ mainPc.at # "exit"
    /\ Len(inputQ) < MaxInputQ
    /\ input \in EntryTexts(updates.input_mode, demo)
    /\ inputQ' = Append(inputQ, [type |-> "Login", input |-> input])
    /\ last' = NoCall
    /\ UNCHANGED <<demo, auth_status, lock, wire, mainPc, cmdQ, bgWaiting,
                   bgReading, dropTask, updates, timers, proc, specStatus, nOps>>
    /\ UNCHANGED <<cache, otherVars>>

\* the user clicks Cancel; the button is visible only in an input mode
ClickCancel ==
    /\ Running /\ ~Dropped
    /\ mainPc.at # "exit"
    /\ Len(inputQ) < MaxInputQ
    /\ updates.input_mode # "None"
    /\ inputQ' = Append(inputQ, [type |-> "Cancel", input |-> ""])
    /\ last' = NoCall
    /\ UNCHANGED <<demo, auth_status, lock, wire, mainPc, cmdQ, bgWaiting,
                   bgReading, dropTask, updates, timers, proc, specStatus, nOps>>
    /\ UNCHANGED <<cache, otherVars>>

\* login_click_handler that begins a login attempt whenever no session is
\* ready to start
Mut_login_click_handler(upd, st, info) ==
    CASE st = "Done" -> Greeter_start_session(upd, info)
      [] st = "InProgress" -> Greeter_create_session(upd, info)
      [] st = "NotStarted" -> Greeter_create_session(upd, info)

\* login_click_handler up to the lock of the operation it chose: the match
\* on the auth_status it read
login_click_handler(upd, st, info) ==
    CASE st = "Done" -> Greeter_start_session(upd, info)
      [] st = "InProgress" ->
            Step([upd EXCEPT !.input = ""], 0, 0, "call",
                 "send_auth_response", "-")
      [] st = "NotStarted" -> Greeter_create_session(upd, info)

\* update(Login): store the session info, read auth_status under the lock
\* and run login_click_handler up to the lock of the operation it chose;
\* last keeps the status read, the text entered and the session info
\* (ctx "login")
UpdateLogin(info) ==
    /\ Running /\ ~Dropped
    /\ mainPc.at = "idle"
    /\ inputQ # <<>> /\ Head(inputQ).type = "Login"
    /\ LockFree
    /\ inputQ' = Tail(inputQ)
    /\ cmdQ' = cmdQ
    /\ LET R == login_click_handler(updates, auth_status, info)
       IN  ApplyStep(R, IF R.op = "send_auth_response"
                        THEN Head(inputQ).input ELSE NoInput, info)
    /\ last' = [NoCall EXCEPT !.by = "main", !.ctx = "login",
                              !.input = Head(inputQ).input,
                              !.before = auth_status, !.info = info]
    /\ UNCHANGED <<demo, auth_status, lock, wire, bgReading, dropTask, specStatus, nOps>>
    /\ UNCHANGED otherVars

\* update(Cancel): cancel_click_handler up to the lock
UpdateCancel ==
    /\ Running /\ ~Dropped
    /\ mainPc.at = "idle"
    /\ inputQ # <<>> /\ Head(inputQ).type = "Cancel"
    /\ inputQ' = Tail(inputQ)
    /\ mainPc' = [at |-> "lock", op |-> "cancel_session",
                  ctx |-> "cancel_click", input |-> NoInput, info |-> "-"]
    /\ last' = NoCall
    /\ UNCHANGED <<demo, auth_status, lock, wire, cmdQ, bgWaiting, bgReading,
                   dropTask, updates, timers, proc,
                   specStatus, nOps>>
    /\ UNCHANGED <<cache, otherVars>>

\* update_cmd(HandleGreetdResponse(response))
UpdateCmd(info) ==
    /\ Running /\ ~Dropped
    /\ mainPc.at = "idle"
    /\ cmdQ # <<>>
    /\ Head(cmdQ).type # "Success" => info = "ok"
    /\ cmdQ' = Tail(cmdQ)
    /\ ApplyStep(handle_greetd_response(updates, Head(cmdQ), info), NoInput, info)
    /\ last' = [NoCall EXCEPT !.by = "main", !.ctx = "update_cmd",
                              !.resp = Head(cmdQ)]
    /\ UNCHANGED <<demo, auth_status, lock, wire, inputQ, bgReading, dropTask,
                   specStatus, nOps>>
    /\ UNCHANGED otherVars

\* update_cmd(ClearErr), sent by a timer of display_error
ClearErr ==
    /\ Running /\ ~Dropped
    /\ mainPc.at = "idle"
    /\ timers > 0
    /\ timers' = timers - 1
    /\ updates' = [updates EXCEPT !.error = "None"]
    /\ last' = NoCall
    /\ UNCHANGED <<demo, auth_status, lock, wire, mainPc, inputQ, cmdQ,
                   bgWaiting, bgReading, dropTask, proc,
                   specStatus, nOps>>
    /\ UNCHANGED <<cache, otherVars>>

\* a handler acquires the client and starts its operation
MainCall(wok) ==
    /\ Running
    /\ mainPc.at = "lock"
    /\ cmdQ' = cmdQ
    /\ LET e == ClientEnter(mainPc.op, mainPc.input, auth_status, wok)
       IN  /\ demo => wok
           /\ CallEnter("main", mainPc.op, mainPc.ctx, mainPc.input, e)
           /\ IF e.fin
              THEN ApplyStep(AfterCall(updates, mainPc.info, mainPc.op,
                                       mainPc.ctx, e.out, e.resp),
                             NoInput, mainPc.info)
              ELSE /\ mainPc' = [mainPc EXCEPT !.at = "read"]
                   /\ UNCHANGED <<updates, bgWaiting, timers, proc, cache>>
    /\ UNCHANGED <<demo, inputQ, bgReading, dropTask, specStatus, nOps>>
    /\ UNCHANGED otherVars

\* the handler's read completes (or fails) and the handler goes on
MainReturn(r) ==
    /\ Running
    /\ mainPc.at = "read"
    /\ cmdQ' = cmdQ
    /\ LET f == ClientLeave(mainPc.op, auth_status, r)
       IN  /\ CallLeave("main", mainPc.op, mainPc.ctx, mainPc.input, f)
           /\ ApplyStep(AfterCall(updates, mainPc.info, mainPc.op,
                                   mainPc.ctx, f.out, f.resp),
                        NoInput, mainPc.info)
    /\ UNCHANGED <<demo, inputQ, bgReading, dropTask, specStatus, nOps>>
    /\ UNCHANGED otherVars

\* start_session got Success: the MutexGuard was dropped at the end of the
\* statement that awaited the call, and the main thread now calls
\* std::process::exit(0); the tasks on the runtime's worker threads run
\* until the process is gone
Exit ==
    /\ Running
    /\ mainPc.at = "exit"
    /\ proc' = "exited"
    /\ last' = NoCall
    /\ UNCHANGED <<demo, auth_status, lock, wire, mainPc, inputQ, cmdQ,
                   bgWaiting, bgReading, dropTask, updates, timers,
                   specStatus, nOps>>
    /\ UNCHANGED <<cache, otherVars>>

\* the command channel takes the message of a finished background task;
\* after the component has shut down the message is discarded
SendCmd(resp) ==
    cmdQ' = IF Dropped THEN cmdQ ELSE Append(cmdQ, resp)

\* a background task acquires the client and sends the empty response;
\* a failed write panics the task
BgCall(wok) ==
    /\ Running
    /\ bgWaiting > 0
    /\ demo => wok
    /\ LET e == ClientEnter("send_auth_response", NoInput, auth_status, wok)
       IN  /\ CallEnter("bg", "send_auth_response", "-", NoInput, e)
           /\ bgWaiting' = bgWaiting - 1
           /\ bgReading' = IF e.fin THEN bgReading ELSE bgReading + 1
           /\ IF e.fin /\ e.out # "io_write"
              THEN SendCmd(e.resp)
              ELSE cmdQ' = cmdQ
    /\ UNCHANGED <<demo, mainPc, inputQ, dropTask, updates, timers,
                   proc, specStatus, nOps>>
    /\ UNCHANGED <<cache, otherVars>>

\* the background task's read completes: it posts HandleGreetdResponse;
\* a failed read panics the task
BgReturn(r) ==
    /\ Running
    /\ bgReading > 0
    /\ LET f == ClientLeave("send_auth_response", auth_status, r)
       IN  /\ CallLeave("bg", "send_auth_response", "-", NoInput, f)
           /\ IF f.out = "io_read" THEN cmdQ' = cmdQ ELSE SendCmd(f.resp)
    /\ bgReading' = bgReading - 1
    /\ UNCHANGED <<demo, mainPc, inputQ, bgWaiting, dropTask, updates,
                   timers, proc, specStatus, nOps>>
    /\ UNCHANGED <<cache, otherVars>>

\* the component shuts down between two messages and the Greeter is
\* dropped: its fields and the message channels are gone, and Drop spawns
\* the task that cancels the session
Drop ==
    /\ Running /\ ~Dropped
    /\ mainPc.at = "idle"
    /\ dropTask' = "lock"
    /\ inputQ' = <<>>
    /\ cmdQ' = <<>>
    /\ updates' = [input_mode |-> "None", error |-> "None", message |-> "default",
                 input |-> ""]
    /\ timers' = 0
    /\ last' = NoCall
    /\ UNCHANGED <<demo, auth_status, lock, wire, mainPc, bgWaiting, bgReading,
                   proc, specStatus, nOps>>
    /\ UNCHANGED <<cache, otherVars>>

\* the task spawned by Drop acquires the client and calls cancel_session;
\* `expect` panics the task on an Err
DropCall(wok) ==
    /\ Running
    /\ dropTask = "lock"
    /\ demo => wok
    /\ LET e == ClientEnter("cancel_session", NoInput, auth_status, wok)
       IN  /\ CallEnter("drop", "cancel_session", "drop", NoInput, e)
           /\ dropTask' = CASE ~e.fin -> "read"
                             [] e.out = "io_write" -> "panicked"
                             [] OTHER -> "done"
    /\ UNCHANGED <<demo, mainPc, inputQ, cmdQ, bgWaiting, bgReading, updates,
                   timers, proc, specStatus, nOps>>
    /\ UNCHANGED <<cache, otherVars>>

DropReturn(r) ==
    /\ Running
    /\ dropTask = "read"
    /\ LET f == ClientLeave("cancel_session", auth_status, r)
       IN  /\ CallLeave("drop", "cancel_session", "drop", NoInput, f)
           /\ dropTask' = IF f.out \in {"io_read", "unimplemented"}
                           THEN "panicked" ELSE "done"
    /\ UNCHANGED <<demo, mainPc, inputQ, cmdQ, bgWaiting, bgReading, updates,
                   timers, proc, specStatus, nOps>>
    /\ UNCHANGED <<cache, otherVars>>

\* after the component has shut down, main returns and the process ends,
\* whatever the spawned tasks are doing
ProcessEnd ==
    /\ Running /\ Dropped
    /\ proc' = "ended"
    /\ last' = NoCall
    /\ UNCHANGED <<demo, auth_status, lock, wire, mainPc, inputQ, cmdQ,
                   bgWaiting, bgReading, dropTask, updates, timers, specStatus, nOps>>
    /\ UNCHANGED <<cache, otherVars>>

\* after GreetdClient::new and Greeter::new, inside init(): the widgets
\* exist and init is about to cancel any previous session
Init ==
    /\ OtherIdle
    /\ demo \in BOOLEAN
    /\ auth_status = GreetdClient_new
    /\ lock = "none"
    /\ wire = <<>>
    /\ mainPc = [at |-> "lock", op |-> "cancel_session", ctx |-> "init",
                 input |-> NoInput, info |-> "-"]
    /\ inputQ = <<>>
    /\ cmdQ = <<>>
    /\ bgWaiting = 0
    /\ bgReading = 0
    /\ dropTask = "none"
    /\ updates = [input_mode |-> "None", error |-> "None", message |-> "default",
                 input |-> ""]
    /\ timers = 0
    /\ proc = "running"
    /\ last = NoCall
    /\ specStatus = "NotStarted"
    /\ nOps = 0
    /\ cache = NoCache

Next ==
    \/ \E input \in Inputs : ClickLogin(input)
    \/ ClickCancel
    \/ \E info \in InfoKinds : UpdateLogin(info)
    \/ UpdateCancel
    \/ \E info \in InfoKinds : UpdateCmd(info)
    \/ ClearErr
    \/ \E wok \in BOOLEAN : MainCall(wok)
    \/ \E r \in Response \cup {IoErr} : MainReturn(r)
    \/ Exit
    \/ \E wok \in BOOLEAN : BgCall(wok)
    \/ \E r \in Response \cup {IoErr} : BgReturn(r)
    \/ Drop
    \/ \E wok \in BOOLEAN : DropCall(wok)
    \/ \E r \in Response \cup {IoErr} : DropReturn(r)
    \/ ProcessEnd

Spec == Init /\ [][Next]_vars

\* the greeter as in Init, with the cache of a first run (Cache::new found
\* no cache file)
InitCache ==
    /\ OtherIdle
    /\ demo \in BOOLEAN
    /\ auth_status = GreetdClient_new
    /\ lock = "none"
    /\ wire = <<>>
    /\ mainPc = [at |-> "lock", op |-> "cancel_session", ctx |-> "init",
                 input |-> NoInput, info |-> "-"]
    /\ inputQ = <<>>
    /\ cmdQ = <<>>
    /\ bgWaiting = 0
    /\ bgReading = 0
    /\ dropTask = "none"
    /\ updates = [input_mode |-> "None", error |-> "None", message |-> "default",
                 input |-> ""]
    /\ timers = 0
    /\ proc = "running"
    /\ last = NoCall
    /\ specStatus = "NotStarted"
    /\ nOps = 0
    /\ cache = Cache_default

\* the greeter with its cache
SpecCache == InitCache /\ [][Next]_vars

\* The Mutex of tokio hands the lock to its waiters in the order of their
\* requests, so a task that waits while the lock is released again and
\* again gets it (strong fairness of the calls); the broker answers every
\* request, or the read fails (weak fairness of the returns).  Nothing
\* obliges the user to click or the process to end.
Fairness ==
    /\ SF_vars(\E wok \in BOOLEAN : MainCall(wok))
    /\ SF_vars(\E wok \in BOOLEAN : BgCall(wok))
    /\ SF_vars(\E wok \in BOOLEAN : DropCall(wok))
    /\ WF_vars(\E r \in Response \cup {IoErr} : MainReturn(r))
    /\ WF_vars(\E r \in Response \cup {IoErr} : BgReturn(r))
    /\ WF_vars(\E r \in Response \cup {IoErr} : DropReturn(r))

SpecFair == Init /\ [][Next]_vars /\ Fairness

\* the same program with a broker whose texts are arbitrary
NextTexts ==
    \/ \E input \in Inputs : ClickLogin(input)
    \/ ClickCancel
    \/ \E info \in InfoKinds : UpdateLogin(info)
    \/ UpdateCancel
    \/ \E info \in InfoKinds : UpdateCmd(info)
    \/ ClearErr
    \/ \E wok \in BOOLEAN : MainCall(wok)
    \/ \E r \in ResponseWide \cup {IoErr} : MainReturn(r)
    \/ Exit
    \/ \E wok \in BOOLEAN : BgCall(wok)
    \/ \E r \in ResponseWide \cup {IoErr} : BgReturn(r)
    \/ Drop
    \/ \E wok \in BOOLEAN : DropCall(wok)
    \/ \E r \in ResponseWide \cup {IoErr} : DropReturn(r)
    \/ ProcessEnd

SpecTexts == Init /\ [][NextTexts]_vars

\* ---- the client alone, under a caller that follows the table ----------

\* a caller calls an operation that the table permits in the current
\* status; the call runs up to its read of the response
ClientCall(op, input, wok) ==
    /\ Running
    /\ mainPc.at = "idle"
    /\ nOps < MaxOps
    /\ Permitted(op, auth_status)
    /\ op # "send_auth_response" => input = NoInput
    /\ demo => wok
    /\ LET e == ClientEnter(op, input, auth_status, wok)
       IN  /\ CallEnter("main", op, "-", input, e)
           /\ mainPc' = IF e.fin THEN Idle
                         ELSE [at |-> "read", op |-> op, ctx |-> "-",
                               input |-> input, info |-> "-"]
           /\ specStatus' = Table(specStatus, op, e.out)
    /\ nOps' = nOps + 1
    /\ UNCHANGED <<demo, inputQ, cmdQ, bgWaiting, bgReading, dropTask, updates,
                   timers, proc>>
    /\ UNCHANGED <<cache, otherVars>>

\* the response is read (or the read fails) and the operation returns, or
\* panics the caller on a response it does not implement
ClientReturn(r) ==
    /\ Running
    /\ mainPc.at = "read"
    /\ LET f == ClientLeave(mainPc.op, auth_status, r)
       IN  /\ CallLeave("main", mainPc.op, "-", mainPc.input, f)
           /\ specStatus' = Table(specStatus, mainPc.op, f.out)
           /\ proc' = IF f.out = "unimplemented" THEN "panicked" ELSE proc
    /\ mainPc' = Idle
    /\ UNCHANGED <<demo, inputQ, cmdQ, bgWaiting, bgReading, dropTask, updates,
                   timers, nOps>>
    /\ UNCHANGED <<cache, otherVars>>

\* the client right after GreetdClient::new
InitClient ==
    /\ OtherIdle
    /\ demo \in BOOLEAN
    /\ auth_status = GreetdClient_new
    /\ lock = "none"
    /\ wire = <<>>
    /\ mainPc = Idle
    /\ inputQ = <<>>
    /\ cmdQ = <<>>
    /\ bgWaiting = 0
    /\ bgReading = 0
    /\ dropTask = "none"
    /\ updates = [input_mode |-> "None", error |-> "None", message |-> "default",
                 input |-> ""]
    /\ timers = 0
    /\ proc = "running"
    /\ last = NoCall
    /\ specStatus = "NotStarted"
    /\ nOps = 0
    /\ cache = NoCache

NextClient ==
    \/ \E op \in Ops, input \in Inputs \cup {NoInput}, wok \in BOOLEAN :
            ClientCall(op, input, wok)
    \/ \E r \in Response \cup {IoErr} : ClientReturn(r)

SpecClient == InitClient /\ [][NextClient]_vars

\* ---- startup: construction of the client ------------------------------

\* a constructor that goes on without a connection when connect fails
Mut_GreetdClient_new_outcome(isDemo, envSet, connOk) ==
    CASE isDemo -> "ok"
      [] ~envSet -> "panic"
      [] OTHER -> "ok"

\* GreetdClient::new: demo takes no socket; otherwise a missing GREETD_SOCK
\* panics and a failed UnixStream::connect is returned as Err (`?`)
GreetdClient_new_outcome(isDemo, envSet, connOk) ==
    CASE isDemo -> "ok"
      [] ~envSet -> "panic"
      [] ~connOk -> "io_connect"
      [] OTHER -> "ok"

\* Greeter::new: GreetdClient::new().await.expect(..) panics on Err
Greeter_new(res) == IF res = "ok" THEN "running" ELSE "panicked"

\* the greeter is constructed: envSet says that GREETD_SOCK is set, connOk
\* that the socket accepts the connection.  Without a client auth_status
\* stays "-".
Startup(envSet, connOk) ==
    /\ proc = "starting"
    /\ LET res == GreetdClient_new_outcome(demo, envSet, connOk)
       IN  /\ proc' = Greeter_new(res)
           /\ auth_status' = IF res = "ok" THEN GreetdClient_new ELSE auth_status
           /\ last' = [NoCall EXCEPT
                          !.op = "new", !.out = res,
                          !.ctx = IF envSet THEN "env_set" ELSE "env_unset",
                          !.input = IF connOk THEN "connect_ok"
                                    ELSE "connect_failed"]
    /\ UNCHANGED <<demo, lock, wire, mainPc, inputQ, cmdQ, bgWaiting, bgReading,
                   dropTask, updates, timers, specStatus, nOps>>
    /\ UNCHANGED <<cache, otherVars>>

\* the process has parsed its arguments (demo is the --demo flag) and no
\* client exists yet
InitStartup ==
    /\ OtherIdle
    /\ demo \in BOOLEAN
    /\ auth_status = "-"
    /\ lock = "none"
    /\ wire = <<>>
    /\ mainPc = Idle
    /\ inputQ = <<>>
    /\ cmdQ = <<>>
    /\ bgWaiting = 0
    /\ bgReading = 0
    /\ dropTask = "none"
    /\ updates = [input_mode |-> "None", error |-> "None", message |-> "default",
                 input |-> ""]
    /\ timers = 0
    /\ proc = "starting"
    /\ last = NoCall
    /\ specStatus = "NotStarted"
    /\ nOps = 0
    /\ cache = NoCache

\* construction, then the calls of a caller that follows the table
NextStartup ==
    \/ \E envSet \in BOOLEAN, connOk \in BOOLEAN : Startup(envSet, connOk)
    \/ NextClient

SpecStartup == InitStartup /\ [][NextStartup]_vars

\* ---- NormalUser::parse_login_defs (src/sysutil.rs) --------------------
\* A text is a sequence of characters (strings of length one); all the
\* characters used are ASCII, so byte indices are character indices.

\* Option::None of a parsed number
None == -1

\* the defaults of constants.rs
LOGIN_DEFS_UID_MIN == 1000

LOGIN_DEFS_UID_MAX == 60000

K_UID_MIN == <<"U", "I", "D", "_", "M", "I", "N">>

K_UID_MAX == <<"U", "I", "D", "_", "M", "A", "X">>

\* "UID_XXX".len()
KEY_LENGTH == 7

\* char::is_whitespace, for the characters used here
is_whitespace(c) == c \in {" ", "\t", "\r", "\n"}

RECURSIVE trim_start(_)
\* str::trim_start
trim_start(str) ==
    IF str # <<>> /\ is_whitespace(Head(str)) THEN trim_start(Tail(str)) ELSE str

RECURSIVE trim_end(_)
\* str::trim_end
trim_end(str) ==
    IF str # <<>> /\ is_whitespace(str[Len(str)])
    THEN trim_end(SubSeq(str, 1, Len(str) - 1)) ELSE str

\* str::trim
trim(str) == trim_end(trim_start(str))

Digits == <<"0", "1", "2", "3", "4", "5", "6", "7", "8", "9",
            "a", "b", "c", "d", "e", "f">>

UpperDigits == <<"0", "1", "2", "3", "4", "5", "6", "7", "8", "9",
                 "A", "B", "C", "D", "E", "F">>

\* char::to_digit(radix): the value of a digit, None when c is no digit of
\* the radix
to_digit(c, radix) ==
    IF \E i \in 1..radix : Digits[i] = c \/ UpperDigits[i] = c
    THEN (CHOOSE i \in 1..radix : Digits[i] = c \/ UpperDigits[i] = c) - 1
    ELSE None

RECURSIVE digits_value(_, _, _)
\* the digits of str folded from the left onto acc; None on a character
\* that is no digit (the numbers used here are far from the overflow of
\* u64, on which from_str_radix fails as well)
digits_value(str, radix, acc) ==
    IF str = <<>> THEN acc
    ELSE IF to_digit(Head(str), radix) = None THEN None
    ELSE digits_value(Tail(str), radix, acc * radix + to_digit(Head(str), radix))

\* u64::from_str_radix(..).ok(): an optional "+", then at least one digit
from_str_radix(str, radix) ==
    LET ds == IF str # <<>> /\ Head(str) = "+" THEN Tail(str) ELSE str
    IN  IF ds = <<>> THEN None ELSE digits_value(ds, radix, 0)

\* parse_number: "0", then 0x.. as hex, 0.. as octal, anything else as
\* decimal
parse_number(num) ==
    LET n == trim(num)
    IN  IF n = <<"0">> THEN 0
        ELSE IF n # <<>> /\ Head(n) = "0"
        THEN IF Tail(n) # <<>> /\ Head(Tail(n)) = "x"
             THEN from_str_radix(Tail(Tail(n)), 16)
             ELSE from_str_radix(Tail(n), 8)
        ELSE from_str_radix(n, 10)

RECURSIVE lines(_, _)
\* str::lines: the text split at "\n", a "\r" before it removed; a last
\* line without "\n" counts unless it is empty.  cur is the line so far.
lines(text, cur) ==
    IF text = <<>> THEN IF cur = <<>> THEN <<>> ELSE <<cur>>
    ELSE IF Head(text) = "\n"
    THEN <<IF cur # <<>> /\ cur[Len(cur)] = "\r"
           THEN SubSeq(cur, 1, Len(cur) - 1) ELSE cur>> \o lines(Tail(text), <<>>)
    ELSE lines(Tail(text), Append(cur, Head(text)))

\* a parser in which a later line of a key replaces an earlier one
Mut_parse_line(line, min, max) ==
    IF Len(line) < KEY_LENGTH THEN [min |-> min, max |-> max]
    ELSE LET key == SubSeq(line, 1, KEY_LENGTH)
             val == SubSeq(line, KEY_LENGTH + 1, Len(line))
         IN  IF val = <<>> \/ ~is_whitespace(Head(val))
             THEN [min |-> min, max |-> max]
             ELSE IF key = K_UID_MIN
             THEN [min |-> parse_number(val), max |-> max]
             ELSE IF key = K_UID_MAX
             THEN [min |-> min, max |-> parse_number(val)]
             ELSE [min |-> min, max |-> max]

\* the body of the loop of parse_login_defs for one trimmed line: the new
\* min and max
parse_line(line, min, max) ==
    IF Len(line) < KEY_LENGTH THEN [min |-> min, max |-> max]
    ELSE LET key == SubSeq(line, 1, KEY_LENGTH)
             val == SubSeq(line, KEY_LENGTH + 1, Len(line))
         IN  IF val = <<>> \/ ~is_whitespace(Head(val))
             THEN [min |-> min, max |-> max]
             ELSE IF key = K_UID_MIN /\ min = None
             THEN [min |-> parse_number(val), max |-> max]
             ELSE IF key = K_UID_MAX /\ max = None
             THEN [min |-> min, max |-> parse_number(val)]
             ELSE [min |-> min, max |-> max]

RECURSIVE parse_loop(_, _, _)
\* the loop of parse_login_defs: it ends with the lines, or as soon as both
\* values are known
parse_loop(ls, min, max) ==
    IF ls = <<>> \/ (min # None /\ max # None)
    THEN [uid_min |-> IF min = None THEN LOGIN_DEFS_UID_MIN ELSE min,
          uid_max |-> IF max = None THEN LOGIN_DEFS_UID_MAX ELSE max]
    ELSE LET m == parse_line(trim(Head(ls)), min, max)
         IN  parse_loop(Tail(ls), m.min, m.max)

\* NormalUser::parse_login_defs
parse_login_defs(text) == parse_loop(lines(text, <<>>), None, None)

\* the lines a file is made of here; key and val say what the line defines
\* (val = None: a value that is no number)
LoginDefsLines ==
    { [chars |-> K_UID_MIN \o <<" ", "1">>, key |-> "UID_MIN", val |-> 1],
      [chars |-> <<" ">> \o K_UID_MIN \o <<"\t", "0", "x", "1", "F", " ">>,
       key |-> "UID_MIN", val |-> 31],
      [chars |-> K_UID_MIN \o <<" ", "n", "o">>, key |-> "UID_MIN", val |-> None],
      [chars |-> K_UID_MAX \o <<" ", "1", "0">>, key |-> "UID_MAX", val |-> 10],
      [chars |-> K_UID_MAX \o <<" ", "0", "1", "7">>, key |-> "UID_MAX", val |-> 15],
      [chars |-> K_UID_MAX \o <<" ", "9", " ", "#">>, key |-> "UID_MAX", val |-> None],
      [chars |-> K_UID_MAX \o <<"1", "0">>, key |-> "-", val |-> None],
      [chars |-> <<"S", "U", "B", "_">> \o K_UID_MAX \o <<" ", "1", "0">>,
       key |-> "-", val |-> None],
      [chars |-> K_UID_MAX \o <<"_", "B", "L", "A", "H", " ", "1", "0">>,
       key |-> "-", val |-> None],
      [chars |-> <<"#", " ", "c">>, key |-> "-", val |-> None],
      [chars |-> <<>>, key |-> "-", val |-> None] }

RECURSIVE Text(_)
\* the content of a file with the lines ls, each ended by "\n"
Text(ls) ==
    IF ls = <<>> THEN <<>>
    ELSE Head(ls).chars \o <<"\n">> \o Text(Tail(ls))

\* the greeter and its client do not take part
GreeterIdle ==
    /\ auth_status = GreetdClient_new
    /\ lock = "none"
    /\ wire = <<>>
    /\ mainPc = Idle
    /\ inputQ = <<>>
    /\ cmdQ = <<>>
    /\ bgWaiting = 0
    /\ bgReading = 0
    /\ dropTask = "none"
    /\ updates = [input_mode |-> "None", error |-> "None", message |-> "default",
                 input |-> ""]
    /\ timers = 0
    /\ proc = "running"
    /\ last = NoCall
    /\ specStatus = "NotStarted"
    /\ nOps = 0
    /\ cache = NoCache

\* ---- display_error and ClearErr (src/gui/model.rs, component.rs) -------

\* display_error calls in one run (SpecErrors)
MaxErrors == 4

\* the texts the handlers pass to display_error
ErrorTexts ==
    {"Invalid session command", "No session found", "Failed to start session",
     "Login failed: Msg", "Msg"}

\* a handler calls display_error: updates.error is set and a task is
\* spawned that sleeps ERROR_MSG_CLEAR_DELAY seconds and then sends
\* ClearErr
DisplayError(text) ==
    /\ errors.count < MaxErrors
    /\ updates' = display_error(updates, text)
    /\ errors' = [count |-> errors.count + 1,
                  shown |-> errors.count + 1,
                  pending |-> Append(errors.pending, errors.count + 1),
                  ran |-> [msg |-> "display_error",
                           timer |-> errors.count + 1, cleared |-> 0]]
    /\ UNCHANGED <<demo, auth_status, lock, wire, mainPc, inputQ, cmdQ,
                   bgWaiting, bgReading, dropTask, timers, proc, last,
                   specStatus, nOps, cache>>
    /\ UNCHANGED <<loginDefs, normalUser, commands, menu, ran, idle, lru>>

\* update_cmd(ClearErr): the timers all sleep the same time, so their
\* messages arrive in the order of the display_error calls
HandleClearErr ==
    /\ errors.pending # <<>>
    /\ updates' = [updates EXCEPT !.error = "None"]
    /\ errors' = [errors EXCEPT
                    !.shown = 0,
                    !.pending = Tail(errors.pending),
                    !.ran = [msg |-> "ClearErr",
                             timer |-> Head(errors.pending),
                             cleared |-> errors.shown]]
    /\ UNCHANGED <<demo, auth_status, lock, wire, mainPc, inputQ, cmdQ,
                   bgWaiting, bgReading, dropTask, timers, proc, last,
                   specStatus, nOps, cache>>
    /\ UNCHANGED <<loginDefs, normalUser, commands, menu, ran, idle, lru>>

\* the greeter between two handlers, no error displayed yet
InitErrors ==
    /\ demo \in BOOLEAN
    /\ auth_status = GreetdClient_new
    /\ lock = "none"
    /\ wire = <<>>
    /\ mainPc = Idle
    /\ inputQ = <<>>
    /\ cmdQ = <<>>
    /\ bgWaiting = 0
    /\ bgReading = 0
    /\ dropTask = "none"
    /\ updates = [input_mode |-> "None", error |-> "None", message |-> "default",
                 input |-> ""]
    /\ timers = 0
    /\ proc = "running"
    /\ last = NoCall
    /\ specStatus = "NotStarted"
    /\ nOps = 0
    /\ cache = NoCache
    /\ loginDefs = <<>>
    /\ normalUser = NotParsed
    /\ commands = <<>>
    /\ menu = NoMenu
    /\ ran = NoRun
    /\ lru = NoLru
    /\ idle = NoIdle
    /\ errors = NoErrors

NextErrors ==
    \/ \E text \in ErrorTexts : DisplayError(text)
    \/ HandleClearErr

SpecErrors == InitErrors /\ [][NextErrors]_vars

\* ---- the idle monitor (src/idle.rs) ------------------------------------

\* wl_output globals a compositor may have (SpecIdle)
MaxOutputs == 2

\* the names of the wl_output globals
OutputNames == 1..MaxOutputs

\* the wl_output globals, as the registry announces them
OutputGlobals == {[interface |-> "wl_output", name |-> n] : n \in OutputNames}

\* the globals of a compositor: the three singletons and the outputs
Globals ==
    {[interface |-> "wl_seat", name |-> MaxOutputs + 1],
     [interface |-> "zwlr_output_power_manager_v1", name |-> MaxOutputs + 2],
     [interface |-> "ext_idle_notifier_v1", name |-> MaxOutputs + 3]}
    \cup OutputGlobals

\* State { timeout_ms, ..Default::default() }, facing a compositor with the
\* globals g.  Option fields are TRUE for Some.  phase: the place of
\* run_idle_loop (roundtrip, loop, returned); globals: what the compositor
\* has; announced: the globals whose Global event has been dispatched;
\* lastMode: the mode of the last command sent to an output (history);
\* ran: what the step just taken dispatched and did (history): the event,
\* is_idle and lastMode before it, the mode it sent and the outputs it sent it
\* to, whether it destroyed the notification and whether one is registered
\* after it
State_default(g) ==
    [phase |-> "roundtrip", globals |-> g, announced |-> {}, outputs |-> {},
     seat |-> FALSE, output_power_manager |-> FALSE, idle_notifier |-> FALSE,
     idle_notification |-> FALSE, is_idle |-> FALSE,
     protocols_ready |-> FALSE, lastMode |-> "-", ran |-> NoIdleRan]

\* State::has_required_protocols
has_required_protocols(st) ==
    st.output_power_manager /\ st.idle_notifier /\ st.outputs # {}

\* State::check_protocols_ready
check_protocols_ready(st) ==
    [st EXCEPT !.protocols_ready = has_required_protocols(st)]

\* State::set_display_power_mode: the outputs that get a set_mode request
set_display_power_mode(st) ==
    IF st.output_power_manager THEN st.outputs ELSE {}

\* a create_idle_notification that registers nothing
Mut_create_idle_notification(st) == st

\* State::create_idle_notification
create_idle_notification(st) ==
    IF st.idle_notifier /\ st.seat
    THEN [st EXCEPT !.idle_notification = TRUE]
    ELSE st

\* Dispatch<WlRegistry>: Event::Global for the global g
registry_global(st, g) ==
    check_protocols_ready(
        CASE g.interface = "wl_output" ->
                [st EXCEPT !.outputs = @ \cup {g.name}]
          [] g.interface = "wl_seat" -> [st EXCEPT !.seat = TRUE]
          [] g.interface = "zwlr_output_power_manager_v1" ->
                [st EXCEPT !.output_power_manager = TRUE]
          [] g.interface = "ext_idle_notifier_v1" ->
                [st EXCEPT !.idle_notifier = TRUE])

\* Dispatch<WlRegistry>: Event::GlobalRemove for the name g
registry_global_remove(st, g) == [st EXCEPT !.outputs = @ \ {g.name}]

\* idle.ran of a step that dispatched event on the state st
IdleRan(st, event) ==
    [NoIdleRan EXCEPT !.event = event, !.was_idle = st.is_idle,
                      !.prev = st.lastMode]

\* the state after set_display_power_mode(mode) has run on st
sent_mode(st, mode) ==
    [st EXCEPT !.lastMode = IF set_display_power_mode(st) # {} THEN mode ELSE @,
               !.ran.sent = mode,
               !.ran.to = set_display_power_mode(st)]

\* the Resumed arm after its if: destroy, forget and create again
renew_notification(st) ==
    LET s1 == create_idle_notification([st EXCEPT !.idle_notification = FALSE])
    IN  [s1 EXCEPT !.ran.destroyed = TRUE,
                   !.ran.created = s1.idle_notification]

\* a dispatch that sends the command of every event it gets
Mut_idle_notification_event(st, event) ==
    LET s0 == [st EXCEPT !.ran = IdleRan(st, event)]
    IN  CASE event = "Idled" ->
                sent_mode([s0 EXCEPT !.is_idle = TRUE], "Off")
          [] event = "Resumed" ->
                renew_notification(
                    sent_mode([s0 EXCEPT !.is_idle = FALSE], "On"))

\* Dispatch<ExtIdleNotificationV1>::event
idle_notification_event(st, event) ==
    LET s0 == [st EXCEPT !.ran = IdleRan(st, event)]
    IN  CASE event = "Idled" ->
                IF ~st.is_idle
                THEN sent_mode([s0 EXCEPT !.is_idle = TRUE], "Off")
                ELSE s0
          [] event = "Resumed" ->
                renew_notification(
                    IF st.is_idle
                    THEN sent_mode([s0 EXCEPT !.is_idle = FALSE], "On")
                    ELSE s0)

\* everything but the idle monitor stays as it is
IdleOnly ==
    /\ UNCHANGED <<demo, auth_status, lock, wire, mainPc, inputQ, cmdQ,
                   bgWaiting, bgReading, dropTask, updates, timers, proc, last,
                   specStatus, nOps, cache>>
    /\ UNCHANGED <<loginDefs, normalUser, commands, menu, ran, errors, lru>>

\* the registry announces a global: during the first roundtrip every global
\* the compositor has, later an output that is plugged in
RegistryGlobal(g) ==
    /\ idle.phase \in {"roundtrip", "loop"}
    /\ g \notin idle.announced
    /\ idle.phase = "roundtrip" => g \in idle.globals
    /\ idle.phase = "loop" => g \in OutputGlobals
    /\ idle' = [registry_global(idle, g) EXCEPT
                    !.announced = @ \cup {g},
                    !.globals = @ \cup {g},
                    !.ran = IdleRan(idle, "Global")]
    /\ IdleOnly

\* an output is unplugged
RegistryGlobalRemove(g) ==
    /\ idle.phase = "loop"
    /\ g \in idle.announced
    /\ idle' = [registry_global_remove(idle, g) EXCEPT
                    !.announced = @ \ {g},
                    !.globals = @ \ {g},
                    !.ran = IdleRan(idle, "GlobalRemove")]
    /\ IdleOnly

\* run_idle_loop after event_queue.roundtrip: return when a required
\* protocol is missing, otherwise create the idle notification and enter the
\* dispatch loop
RunIdleLoop ==
    /\ idle.phase = "roundtrip"
    /\ idle.announced = idle.globals
    /\ idle' = IF ~has_required_protocols(idle)
               THEN [idle EXCEPT !.phase = "returned",
                                 !.ran = IdleRan(idle, "return")]
               ELSE [create_idle_notification(idle) EXCEPT
                        !.phase = "loop",
                        !.ran = [IdleRan(idle, "enter") EXCEPT
                                   !.created =
                                      create_idle_notification(idle).idle_notification]]
    /\ IdleOnly

\* the compositor sends an event of the registered idle notification
IdleNotificationEvent(event) ==
    /\ idle.phase = "loop"
    /\ idle.idle_notification
    /\ idle' = idle_notification_event(idle, event)
    /\ IdleOnly

\* run_idle_loop has connected and bound the registry of a compositor
InitIdle ==
    /\ demo = FALSE
    /\ GreeterIdle
    /\ lru = NoLru
    /\ loginDefs = <<>>
    /\ normalUser = NotParsed
    /\ commands = <<>>
    /\ menu = NoMenu
    /\ ran = NoRun
    /\ errors = NoErrors
    /\ idle \in {State_default(g) : g \in SUBSET Globals}

NextIdle ==
    \/ \E g \in Globals : RegistryGlobal(g)
    \/ \E g \in OutputGlobals : RegistryGlobalRemove(g)
    \/ RunIdleLoop
    \/ \E event \in {"Idled", "Resumed"} : IdleNotificationEvent(event)

SpecIdle == InitIdle /\ [][NextIdle]_vars

\* ---- the cache of last sessions (src/cache/mod.rs, src/cache/lru.rs) -----

\* stands for CACHE_LIMIT (100): the capacity Cache::new gives the mapping
CACHE_LIMIT == 2

\* the number of users that log in (SpecLru)
MaxUsers == 3

\* set_last_session and get_last_session calls after a load (SpecLru)
MaxLruOps == 4

\* user names
LruUsers == 1..MaxUsers

\* session names
LruSessions == {"sway", "gnome"}

\* the entries of the mapping and of the map in the file
LruEntries == [key : LruUsers, value : LruSessions]

\* the keys of a sequence of entries
LruKeys(list) == {list[i].key : i \in 1..Len(list)}

\* the entries of list but the one of key k
LruWithout(list, k) == SelectSeq(list, LAMBDA e : e.key # k)

\* the entry of key k in list
LruEntryOf(list, k) == CHOOSE e \in {list[i] : i \in 1..Len(list)} : e.key = k

\* LruCache::new and LruCache::unbounded: the mapping is the list of its
\* entries, the most recently used first; capacity 0 is the unbounded cache
LruCache_new(capacity) == [cap |-> capacity, list |-> <<>>]

\* lru::LruCache::push: the entry becomes the most recently used; a new key
\* in a full cache replaces the least recently used entry
LruCache_push(c, k, v) ==
    LET e == [key |-> k, value |-> v]
    IN  IF k \in LruKeys(c.list)
        THEN [c EXCEPT !.list = <<e>> \o LruWithout(c.list, k)]
        ELSE IF c.cap # 0 /\ Len(c.list) >= c.cap
             THEN [c EXCEPT !.list = <<e>> \o SubSeq(c.list, 1, c.cap - 1)]
             ELSE [c EXCEPT !.list = <<e>> \o c.list]

\* a get that looks the entry up and leaves the order alone
Mut_LruCache_get(c, k) == c

\* lru::LruCache::get: a hit makes the entry the most recently used
LruCache_get(c, k) ==
    IF k \in LruKeys(c.list)
    THEN [c EXCEPT !.list = <<LruEntryOf(c.list, k)>> \o LruWithout(c.list, k)]
    ELSE c

\* lru::LruCache::resize: the least recently used entries beyond the new
\* capacity are dropped
LruCache_resize(c, capacity) ==
    [cap |-> capacity,
     list |-> IF Len(c.list) > capacity THEN SubSeq(c.list, 1, capacity)
              ELSE c.list]

\* Serialize for LruCache: the entries in the order of into_iter(), the most
\* recently used first
LruCache_serialize(c) == c.list

RECURSIVE push_all(_, _)
\* the loop of visit_map: the entries are pushed in the order of the map
push_all(c, entries) ==
    IF entries = <<>> THEN c
    ELSE push_all(LruCache_push(c, Head(entries).key, Head(entries).value),
                  Tail(entries))

\* LruVisitor::visit_map; hint: the deserializer knows the size of the map
visit_map(entries, hint) ==
    push_all(LruCache_new(IF hint THEN Len(entries) ELSE 0), entries)

\* Cache::new: load_toml (the default when there is no file), then resize
Cache_new(exists, entries, hint) ==
    LruCache_resize(IF exists THEN visit_map(entries, hint)
                    ELSE LruCache_new(CACHE_LIMIT),
                    CACHE_LIMIT)

\* the time of the last use of every user after the pushes of a load
UsedAfterLoad(exists, entries) ==
    [u \in LruUsers |->
        IF exists /\ \E i \in 1..Len(entries) : entries[i].key = u
        THEN CHOOSE i \in 1..Len(entries) : entries[i].key = u
        ELSE 0]

\* the maps a cache file may hold: no key twice, one entry more than the limit
LruFiles ==
    {f \in UNION {[1..n -> LruEntries] : n \in 0..(CACHE_LIMIT + 1)} :
        \A i, j \in 1..Len(f) : f[i].key = f[j].key => i = j}

\* the state after Cache::new has read the file.  clock, used: the number of
\* uses so far and the time of the last use of each user (history); ran: the
\* operation just run, the mapping before it and the user it evicted
\* (history)
Loaded(exists, entries, saved, hint, op) ==
    LET c == Cache_new(exists, entries, hint)
    IN  [cap |-> c.cap, list |-> c.list,
         clock |-> IF exists THEN Len(entries) ELSE 0,
         used |-> UsedAfterLoad(exists, entries),
         ran |-> [NoLruRan EXCEPT !.op = op, !.before = saved]]

\* the user that the operation dropped from the mapping
LruEvicted(before, after) ==
    IF LruKeys(before) \ LruKeys(after) = {} THEN 0
    ELSE CHOOSE k \in LruKeys(before) \ LruKeys(after) : TRUE

\* everything but the cache of last sessions stays as it is
LruOnly ==
    /\ UNCHANGED <<demo, auth_status, lock, wire, mainPc, inputQ, cmdQ,
                   bgWaiting, bgReading, dropTask, updates, timers, proc, last,
                   specStatus, nOps, cache>>
    /\ UNCHANGED <<loginDefs, normalUser, commands, menu, ran, errors, idle>>

\* Cache::set_last_session(user, session)
SetLastSession(user, session) ==
    /\ lru.clock < CACHE_LIMIT + 1 + MaxLruOps
    /\ LET c == LruCache_push([cap |-> lru.cap, list |-> lru.list],
                              user, session)
       IN  lru' = [lru EXCEPT
                     !.list = c.list,
                     !.clock = @ + 1,
                     !.used[user] = lru.clock + 1,
                     !.ran = [op |-> "set", key |-> user, before |-> lru.list,
                              evicted |-> LruEvicted(lru.list, c.list)]]
    /\ LruOnly

\* Cache::get_last_session(user)
GetLastSession(user) ==
    /\ lru.clock < CACHE_LIMIT + 1 + MaxLruOps
    /\ LET c == LruCache_get([cap |-> lru.cap, list |-> lru.list], user)
       IN  lru' = [lru EXCEPT
                     !.list = c.list,
                     !.clock = @ + 1,
                     !.used[user] = IF user \in LruKeys(lru.list)
                                    THEN lru.clock + 1 ELSE @,
                     !.ran = [op |-> "get", key |-> user, before |-> lru.list,
                              evicted |-> LruEvicted(lru.list, c.list)]]
    /\ LruOnly

\* Cache::save writes the mapping into the cache file, the greeter exits and
\* starts again, and Cache::new reads the file
SaveAndLoad(hint) ==
    /\ lru' = Loaded(TRUE,
                     LruCache_serialize([cap |-> lru.cap, list |-> lru.list]),
                     lru.list, hint, "load")
    /\ LruOnly

\* Cache::new at the start of the greeter, whatever the cache file holds
InitLru ==
    /\ demo = FALSE
    /\ GreeterIdle
    /\ loginDefs = <<>>
    /\ normalUser = NotParsed
    /\ commands = <<>>
    /\ menu = NoMenu
    /\ ran = NoRun
    /\ errors = NoErrors
    /\ idle = NoIdle
    /\ lru \in {Loaded(TRUE, f, <<>>, hint, "new") :
                    f \in LruFiles, hint \in BOOLEAN}
               \cup {Loaded(FALSE, <<>>, <<>>, FALSE, "new")}

NextLru ==
    \/ \E user \in LruUsers, session \in LruSessions :
            SetLastSession(user, session)
    \/ \E user \in LruUsers : GetLastSession(user)
    \/ \E hint \in BOOLEAN : SaveAndLoad(hint)

SpecLru == InitLru /\ [][NextLru]_vars

\* SysUtil::init_normal_user: a login.defs file has been read
InitLoginDefs ==
    /\ demo = FALSE
    /\ GreeterIdle
    /\ lru = NoLru
    /\ idle = NoIdle
    /\ errors = NoErrors
    /\ loginDefs \in UNION {[1..n -> LoginDefsLines] : n \in 0..MaxLines}
    /\ normalUser = NotParsed
    /\ commands = <<>>
    /\ menu = NoMenu
    /\ ran = NoRun

\* the file is parsed
ParseLoginDefs ==
    /\ normalUser = NotParsed
    /\ normalUser' = parse_login_defs(Text(loginDefs))
    /\ UNCHANGED <<greeterVars, lru, idle, errors, loginDefs, commands, menu, ran>>

SpecLoginDefs == InitLoginDefs /\ [][ParseLoginDefs]_vars

\* ---- PowerMenu (src/gui/widget/power_menu/mod.rs) ---------------------
\* A command is known by its index (from 1) in PowerMenu.commands; 0 says
\* that no command is meant.

MenuState_Menu == [state |-> "Menu", what |-> 0]

MenuState_Confirm(index) == [state |-> "Confirm", what |-> index]

\* PowerMenu::update: the new state and the command handed to
\* process::Command (0: none).  msg.index is the index a Request carries.
PowerMenu_update(st, msg, cmds, isDemo) ==
    CASE msg.type = "Cancel" -> [state |-> MenuState_Menu, executed |-> 0]
      [] msg.type = "Confirm" /\ st.state # "Confirm" ->
            [state |-> st, executed |-> 0]
      [] OTHER ->
            LET index == IF msg.type = "Request" THEN msg.index ELSE st.what
                require_confirm == st = MenuState_Menu /\ cmds[index]
            IN  IF require_confirm
                THEN [state |-> MenuState_Confirm(index), executed |-> 0]
                ELSE IF isDemo
                THEN [state |-> MenuState_Menu, executed |-> 0]
                ELSE [state |-> st, executed |-> index]

\* the messages the widgets of the menu can send
PowerMenuMsg ==
    {[type |-> "Request", index |-> i] : i \in 1..MaxCommands}
    \cup {[type |-> "Cancel", index |-> 0], [type |-> "Confirm", index |-> 0]}

\* update handles the next message
PowerMenuUpdate(msg) ==
    /\ msg.type = "Request" => msg.index \in 1..Len(commands)
    /\ LET r == PowerMenu_update(menu, msg, commands, demo)
       IN  /\ menu' = r.state
           /\ ran' = [msg |-> msg, before |-> menu, executed |-> r.executed]
    /\ UNCHANGED <<greeterVars, lru, idle, errors, loginDefs, normalUser, commands>>

\* PowerMenu::init with the commands of some configuration
InitPowerMenu ==
    /\ demo \in BOOLEAN
    /\ GreeterIdle
    /\ lru = NoLru
    /\ idle = NoIdle
    /\ errors = NoErrors
    /\ loginDefs = <<>>
    /\ normalUser = NotParsed
    /\ commands \in UNION {[1..n -> BOOLEAN] : n \in 1..MaxCommands}
    /\ menu = MenuState_Menu
    /\ ran = [msg |-> [type |-> "-", index |-> 0], before |-> MenuState_Menu,
              executed |-> 0]

NextPowerMenu == \E msg \in PowerMenuMsg : PowerMenuUpdate(msg)

SpecPowerMenu == InitPowerMenu /\ [][NextPowerMenu]_vars

\* ---- SystemdPowerMenu (src/gui/widget/power_menu/systemd.rs) ----------

Action == {"Poweroff", "Halt", "Reboot", "RebootFirmware", "Suspend",
           "Hibernate", "HybridSleep"}

\* Action::is_like_poweroff
is_like_poweroff(action) ==
    action \in {"Poweroff", "Halt", "Reboot", "RebootFirmware"}

SystemdPowerMenu_Menu == [state |-> "Menu", what |-> "-"]

SystemdPowerMenu_Confirm(action) == [state |-> "Confirm", what |-> action]

\* SystemdPowerMenu::update: the new model and the action handed to
\* systemctl ("-": none)
SystemdPowerMenu_update(st, msg, isDemo) ==
    CASE msg.type = "Cancel" ->
            [state |-> SystemdPowerMenu_Menu, executed |-> "-"]
      [] msg.type = "Confirm" /\ st.state # "Confirm" ->
            [state |-> st, executed |-> "-"]
      [] OTHER ->
            LET action == IF msg.type = "Request" THEN msg.action ELSE st.what
                require_confirm ==
                    /\ st = SystemdPowerMenu_Menu
                    /\ msg.type = "Request"
                    /\ msg.action \in {"Poweroff", "Reboot", "RebootFirmware"}
            IN  IF require_confirm
                THEN [state |-> SystemdPowerMenu_Confirm(action), executed |-> "-"]
                ELSE IF isDemo
                THEN [state |-> SystemdPowerMenu_Menu, executed |-> "-"]
                ELSE [state |-> st, executed |-> action]

\* the messages the widgets of the menu can send
SystemdPowerMenuMsg ==
    {[type |-> "Request", action |-> a] : a \in Action}
    \cup {[type |-> "Cancel", action |-> "-"], [type |-> "Confirm", action |-> "-"]}

\* update handles the next message; action_buttons makes a button for
\* each action of the configuration (kept in commands as a set)
SystemdPowerMenuUpdate(msg) ==
    /\ msg.type = "Request" => msg.action \in commands
    /\ LET r == SystemdPowerMenu_update(menu, msg, demo)
       IN  /\ menu' = r.state
           /\ ran' = [msg |-> msg, before |-> menu, executed |-> r.executed]
    /\ UNCHANGED <<greeterVars, lru, idle, errors, loginDefs, normalUser, commands>>

\* SystemdPowerMenu::init
InitSystemdPowerMenu ==
    /\ demo \in BOOLEAN
    /\ GreeterIdle
    /\ lru = NoLru
    /\ idle = NoIdle
    /\ errors = NoErrors
    /\ loginDefs = <<>>
    /\ normalUser = NotParsed
    /\ commands \in SUBSET Action
    /\ menu = SystemdPowerMenu_Menu
    /\ ran = [msg |-> [type |-> "-", action |-> "-"],
              before |-> SystemdPowerMenu_Menu, executed |-> "-"]

NextSystemdPowerMenu == \E msg \in SystemdPowerMenuMsg : SystemdPowerMenuUpdate(msg)

SpecSystemdPowerMenu == InitSystemdPowerMenu /\ [][NextSystemdPowerMenu]_vars

TypeOK ==
    /\ demo \in BOOLEAN
    /\ auth_status \in AuthStatus
    /\ lock \in {"none", "main", "bg", "drop"}
    /\ Len(wire) <= 3
    /\ mainPc.at \in {"idle", "lock", "read", "exit"}
    /\ Len(inputQ) <= MaxInputQ
    /\ bgWaiting \in Nat /\ bgReading \in Nat
    /\ bgWaiting + bgReading + Len(cmdQ) <= MaxBg
    /\ dropTask \in {"none", "lock", "read", "done", "panicked"}
    /\ updates.input_mode \in InputMode
    /\ timers \in 0..MaxTimers
    /\ proc \in {"running", "exited", "panicked", "ended"}
    /\ specStatus \in AuthStatus
    /\ nOps \in 0..MaxOps

\* ---- claims ----------------------------------------------------------
\* `last` describes the client call made by the step that led to the
\* current state, so auth_status is the status right after that call.

\* C1: after create_session returns a response, auth_status is Done for
\* Success, InProgress for AuthMessage and NotStarted for Error.
C1_CreateSessionStatus ==
    last.op = "create_session" =>
        /\ last.out = "Success" => auth_status = "Done"
        /\ last.out = "AuthMessage" => auth_status = "InProgress"
        /\ last.out = "Error" => auth_status = "NotStarted"

\* create_session has just been answered with Success by greetd
C1_Witness ==
    /\ last.op = "create_session" /\ last.read = "Success"
    /\ last.before = "NotStarted" /\ auth_status = "Done"

\* C2: after send_auth_response returns Success auth_status is Done, after
\* it returns AuthMessage auth_status is InProgress (whatever came before,
\* so a chain of AuthMessage responses stays InProgress until a Success).
C2_SendAuthResponseStatus ==
    last.op = "send_auth_response" =>
        /\ last.out = "Success" => auth_status = "Done"
        /\ last.out = "AuthMessage" => auth_status = "InProgress"

\* a further AuthMessage arrives in a conversation that is already in
\* progress, in answer to the automatic empty response
C2_Witness ==
    /\ last.op = "send_auth_response" /\ last.by = "bg"
    /\ last.read = "AuthMessage"
    /\ last.before = "InProgress" /\ auth_status = "InProgress"

C4_CancelResets ==
    last.op = "cancel_session" => auth_status = "NotStarted"

\* cancel_session entered in status Done, its write fails
C4_Witness ==
    /\ last.op = "cancel_session" /\ last.before = "Done"
    /\ last.out = "io_write" /\ auth_status = "NotStarted"

\* C5: under a caller that calls only what the transition table permits,
\* the client's status after any number of operations is the table folded
\* over the responses so far, starting from NotStarted.
C5_FoldsTable == auth_status = specStatus

\* the third operation of a permitted sequence: the answer to a prompt is
\* accepted after a cancelled or refused first attempt
C5_Witness ==
    /\ nOps >= 3 /\ last.op = "send_auth_response" /\ last.read = "Success"
    /\ specStatus = "Done" /\ auth_status = "Done"

\* C6: when greetd answers StartSession with AuthMessage, start_session
\* raises unimplemented: nothing is returned (the caller's thread
\* panics) and auth_status is what it was.
C6_StartSessionAuthMessage ==
    (last.op = "start_session" /\ last.read = "AuthMessage") =>
        /\ last.out = "unimplemented"
        /\ proc = "panicked"
        /\ auth_status = last.before

\* greetd has answered StartSession with an AuthMessage
C6_Witness ==
    /\ last.op = "start_session" /\ last.read = "AuthMessage"
    /\ last.before = "Done" /\ proc = "panicked"

\* C7: when greetd answers CancelSession with AuthMessage, cancel_session
\* raises unimplemented instead of returning the response.
C7_CancelSessionAuthMessage ==
    (last.op = "cancel_session" /\ last.read = "AuthMessage") =>
        /\ last.out = "unimplemented"
        /\ last.by = "main" => proc = "panicked"

\* greetd has answered the Cancel button's CancelSession with AuthMessage
C7_Witness ==
    /\ last.op = "cancel_session" /\ last.read = "AuthMessage"
    /\ last.by = "main" /\ last.out = "unimplemented"
    /\ updates.input_mode # "None"

C9_StartSessionOnlyWhenDone ==
    (last.op = "start_session" /\ last.wrote) => last.before = "Done"

\* C10 as stated: a PostAuthMessageResponse request is sent only in status
\* InProgress.
C10_AuthResponseOnlyInProgress ==
    (last.op = "send_auth_response" /\ last.wrote) => last.before = "InProgress"

\* C11 as stated: a CreateSession request is sent only in status
\* NotStarted, also when a background task ran since the handler read it.
C11_CreateOnlyWhenNotStarted ==
    (last.op = "create_session" /\ last.wrote) => last.before = "NotStarted"

\* the step just taken made the greeter handle response type t of kind k:
\* the response its own call returned, or one posted by a background task
Handled(t, k) ==
    /\ last.by = "main" /\ Running
    /\ last.op \in {"create_session", "send_auth_response"}
            \/ last.ctx = "update_cmd"
    /\ last.resp.type = t /\ last.resp.kind = k

\* C12: a handler that handles Error{AuthError} goes on to cancel_session,
\* and when that call is over (also when its write or read failed) the
\* handler has returned with status NotStarted and input mode None; a
\* handler that handles an Error of the other kind returns without a call.
C12_AuthErrorCancels ==
    /\ Handled("Error", "AuthError") =>
            /\ mainPc.at = "lock" /\ mainPc.op = "cancel_session"
            /\ mainPc.ctx = "auth_error"
    /\ Handled("Error", "Error") => mainPc.at = "idle"
    /\ (/\ last.op = "cancel_session" /\ last.ctx = "auth_error"
        /\ last.out \notin {"pending", "unimplemented"}) =>
            /\ mainPc.at = "idle"
            /\ auth_status = "NotStarted"
            /\ updates.input_mode = "None"

\* the cancel_session issued for an AuthError, which greetd gave in answer
\* to the user's input, has been answered
C12_Witness ==
    /\ last.op = "cancel_session" /\ last.ctx = "auth_error"
    /\ last.read = "Success" /\ ~demo
    /\ auth_status = "NotStarted" /\ updates.input_mode = "None"
    /\ updates.error = "Login failed: Msg"

\* C13: when greetd answers StartSession with Error, the handler goes on
\* to cancel_session, and when that call is over the handler has returned
\* with status NotStarted and the error "Failed to start session" shown.
C13_StartErrorCancels ==
    /\ (last.op = "start_session" /\ last.out = "Error" /\ Running) =>
            /\ mainPc.at = "lock" /\ mainPc.op = "cancel_session"
            /\ mainPc.ctx = "start_error"
    /\ (/\ last.op = "cancel_session" /\ last.ctx = "start_error"
        /\ last.out \notin {"pending", "unimplemented"}) =>
            /\ mainPc.at = "idle"
            /\ auth_status = "NotStarted"
            /\ updates.error = "Failed to start session"

\* greetd refused StartSession and has answered the CancelSession that
\* followed
C13_Witness ==
    /\ last.op = "cancel_session" /\ last.ctx = "start_error"
    /\ last.read \in {"Success", "Error"} /\ ~demo
    /\ auth_status = "NotStarted"
    /\ updates.error = "Failed to start session"

\* C14 as stated: once start_session has returned Success, no request is
\* written to the socket any more.
C14_NoRequestAfterSuccess ==
    (mainPc.at = "exit" /\ last.op # "start_session") => ~last.wrote

\* C15 as stated, for a run that ends: the process does not end with the
\* session still InProgress or Done and the CancelSession of the teardown
\* task not even attempted.
C15_TeardownCancels ==
    (proc = "ended" /\ ~demo /\ auth_status \in {"InProgress", "Done"})
        => dropTask # "lock"

\* C16 as stated: when the write or the read of the teardown task's
\* cancel_session fails, the task ends normally (the failure is swallowed).
C16_TeardownFailureSwallowed ==
    (last.by = "drop" /\ last.out \in {"io_write", "io_read"})
        => dropTask = "done"

\* C17 as stated, its last part: while the greeter shows a Secret or
\* Visible prompt and the user has submitted nothing (no Login message is
\* queued or being handled), no auth response is sent.
C17_NoResponseWithoutInput ==
    (/\ last.op = "send_auth_response" /\ last.wrote /\ last.out = "pending"
     /\ mainPc.at = "idle" /\ inputQ = <<>>)
        => updates.input_mode = "None"

\* C18: in demo mode create_session returns AuthMessage{Secret,
\* "One-Time Password:"}; send_auth_response returns AuthMessage{Secret,
\* "Password:"} for "0248", Success for "pass" and Error{AuthError,
\* "pam_authenticate: AUTH_ERR"} for any other input and for no input; the
\* status follows these responses by the rows of the transition table.
C18_DemoScript ==
    (demo /\ last.op \in {"create_session", "send_auth_response"}) =>
        /\ last.op = "create_session" =>
                last.resp = [type |-> "AuthMessage", kind |-> "Secret",
                             text |-> "One-Time Password:"]
        /\ last.op = "send_auth_response" =>
                last.resp =
                    CASE last.input = "0248" ->
                            [type |-> "AuthMessage", kind |-> "Secret",
                             text |-> "Password:"]
                      [] last.input = "pass" ->
                            [type |-> "Success", kind |-> "-", text |-> "-"]
                      [] OTHER ->
                            [type |-> "Error", kind |-> "AuthError",
                             text |-> "pam_authenticate: AUTH_ERR"]
        /\ auth_status = Table(last.before, last.op, last.resp.type)
        /\ ~last.wrote /\ wire = <<>>

\* the demo client has refused an auth response without input
C18_Witness ==
    /\ demo /\ last.op = "send_auth_response" /\ last.input = NoInput
    /\ last.resp.type = "Error" /\ last.resp.kind = "AuthError"
    /\ auth_status = "InProgress"

\* C19: in demo mode the status becomes Done only after the one-time
\* password has been submitted and, in a later turn, the password; such a
\* run has called create_session and send_auth_response twice, so a demo
\* client in status Done has been called at least three times.
C19_DoneNeedsOtpTurn ==
    (demo /\ auth_status = "Done") => nOps >= 3

\* C20: cancel_session leaves the client in status NotStarted with the same
\* connection; called right after a cancel_session, or in status NotStarted,
\* it leaves the client state as it was; in demo mode it writes no request
\* to the socket and returns Success.
C20_CancelIdempotent ==
    [][last'.op = "cancel_session" =>
          /\ auth_status' = "NotStarted" /\ demo' = demo
          /\ (last.op = "cancel_session" \/ auth_status = "NotStarted")
                => auth_status' = auth_status
          /\ demo => /\ ~last'.wrote /\ last'.out = "Success"
                     /\ wire' = wire /\ mainPc'.at = "idle"]_vars

\* the demo client has been cancelled twice in a row
C20_Witness ==
    /\ demo /\ nOps = 2 /\ last.op = "cancel_session"
    /\ last.before = "NotStarted" /\ last.out = "Success" /\ ~last.wrote
    /\ auth_status = "NotStarted"

\* C21: when the socket write or read of create_session, send_auth_response
\* or start_session fails, the operation returns the I/O error in place of a
\* response and auth_status is what it was before the call; the status also
\* stays as it was while the request is written and the response awaited.
C21_IoErrorKeepsStatus ==
    (/\ last.op \in {"create_session", "send_auth_response", "start_session"}
     /\ last.out \in {"io_write", "io_read", "pending"}) =>
        /\ auth_status = last.before
        /\ last.resp = NoCall.resp
        /\ last.out = "io_write" => ~last.wrote /\ last.read = "-"
        /\ last.out = "io_read" => last.wrote /\ last.read = "IoErr"

\* the read of the response to an auth response has failed
C21_Witness ==
    /\ last.op = "send_auth_response" /\ last.out = "io_read"
    /\ last.before = "InProgress" /\ auth_status = "InProgress"

\* C22: without --demo, a missing GREETD_SOCK or a refused connection ends
\* the construction with a panic and no client; with --demo the construction
\* succeeds and opens no connection; a constructed client starts in status
\* NotStarted; as long as no client exists, no request has been written.
C22_ConstructionOrAbort ==
    /\ last.op = "new" =>
          /\ (~demo /\ (last.ctx = "env_unset" \/ last.input = "connect_failed"))
                => proc = "panicked" /\ auth_status = "-"
          /\ demo => proc = "running" /\ wire = <<>>
          /\ proc = "running" => auth_status = "NotStarted"
    /\ auth_status = "-" =>
          /\ wire = <<>> /\ nOps = 0 /\ last.op \in {"-", "new"}
          /\ proc \in {"starting", "panicked"}

\* GREETD_SOCK is set and the connection is refused: startup has aborted
C22_Witness ==
    /\ ~demo /\ last.op = "new"
    /\ last.ctx = "env_set" /\ last.input = "connect_failed"
    /\ proc = "panicked" /\ auth_status = "-" /\ wire = <<>>

\* C23: when a handler has handled an Error response or an AuthMessage of
\* kind Error, an error is displayed (updates.error is set) and the
\* greeter goes on running.
C23_ErrorsDisplayed ==
    (/\ last.by = "main"
     /\ last.op \in {"create_session", "send_auth_response"}
            \/ last.ctx = "update_cmd"
     /\ \/ last.resp.type = "Error"
        \/ last.resp.type = "AuthMessage" /\ last.resp.kind = "Error") =>
        /\ proc = "running"
        /\ updates.error # "None"

\* the lock is held by the task whose operation awaits the response to the
\* one request on the socket, and by no task otherwise
LockDiscipline ==
    /\ lock = "main" <=> mainPc.at = "read"
    /\ lock = "bg" <=> bgReading > 0
    /\ lock = "drop" <=> dropTask = "read"
    /\ bgReading <= 1
    /\ Len(wire) = IF lock = "none" THEN 0 ELSE 1

\* C24: the lock is held only while one client operation runs, and a task
\* that waits for the lock does not hold it; with a broker (the demo client
\* never suspends under the lock) a handler, a background task or the
\* teardown task that waits for the lock acquires it, as long as the
\* process runs.
C24_LockReleasedBetweenOperations ==
    /\ []LockDiscipline
    /\ (~demo /\ mainPc.at = "lock") ~> (mainPc.at # "lock" \/ ~Running)
    /\ (~demo /\ bgWaiting > 0) ~>
            \/ lock = "bg"
            \/ last.by = "bg" /\ last.out = "io_write"
            \/ ~Running
    /\ (~demo /\ dropTask = "lock") ~> (dropTask # "lock" \/ ~Running)

\* a handler waits for the lock while a background task holds it
C24_Witness ==
    /\ ~demo /\ Running
    /\ mainPc.at = "lock" /\ mainPc.op = "send_auth_response"
    /\ lock = "bg" /\ bgReading = 1

\* the value of the first line of the file that defines key k with a number
FirstNumber(k, default) ==
    LET good == {i \in 1..Len(loginDefs) :
                    loginDefs[i].key = k /\ loginDefs[i].val # None}
    IN  IF good = {} THEN default
        ELSE loginDefs[CHOOSE i \in good : \A j \in good : i <= j].val

\* C25: parse_login_defs takes UID_MIN and UID_MAX each from the first
\* line that has exactly this key, followed by whitespace, and a value that
\* parses as a number, whatever the order of the lines and whatever other
\* lines there are; a key without such a line gets its default.
C25_ParseLoginDefs ==
    normalUser # NotParsed =>
        /\ normalUser.uid_min = FirstNumber("UID_MIN", 1000)
        /\ normalUser.uid_max = FirstNumber("UID_MAX", 60000)

\* UID_MAX comes before UID_MIN, the first UID_MIN line does not parse and
\* two later ones do
C25_Witness ==
    /\ normalUser # NotParsed /\ Len(loginDefs) = 3
    /\ loginDefs[1].key = "UID_MIN" /\ loginDefs[1].val = None
    /\ loginDefs[2].key = "UID_MIN" /\ loginDefs[2].val = 31
    /\ loginDefs[3].key = "UID_MIN" /\ loginDefs[3].val = 1
    /\ normalUser = [uid_min |-> 31, uid_max |-> 60000]

\* C26: a command whose confirm flag is set is executed only by a Confirm
\* message handled in state Confirm(index) of this command.
C26_ConfirmBeforeExecute ==
    (ran.executed \in 1..Len(commands) /\ commands[ran.executed]) =>
        /\ ran.msg.type = "Confirm"
        /\ ran.before = [state |-> "Confirm", what |-> ran.executed]

\* C27: in the systemd menu a Request of an action that is like a poweroff,
\* handled in state Menu, moves the menu to Confirm(action) and executes
\* nothing; such an action is executed only by a Confirm message; a Request
\* of Suspend, Hibernate or HybridSleep is executed at once.
C27_PoweroffNeedsConfirm ==
    /\ (/\ ran.msg.type = "Request" /\ is_like_poweroff(ran.msg.action)
        /\ ran.before.state = "Menu") =>
            /\ menu = [state |-> "Confirm", what |-> ran.msg.action]
            /\ ran.executed = "-"
    /\ (ran.executed # "-" /\ is_like_poweroff(ran.executed)) =>
            ran.msg.type = "Confirm"
    /\ (/\ ran.msg.type = "Request" /\ ~demo
        /\ ran.msg.action \in {"Suspend", "Hibernate", "HybridSleep"}) =>
            ran.executed = ran.msg.action

\* C28: the status that create_session and send_auth_response leave after
\* a response is the one of the table row for that response, whatever the
\* status before the call; and with a broker every call, in whatever
\* status it is made, writes its request unless the write itself fails.
C28_NoStatusGuard ==
    /\ (/\ last.op \in {"create_session", "send_auth_response"}
        /\ last.out \in {"Success", "AuthMessage", "Error"}) =>
            \A st \in AuthStatus : auth_status = Table(st, last.op, last.out)
    /\ (~demo /\ last.op \in Ops /\ last.out # "io_write") => last.wrote

\* an auth response sent in status NotStarted has been answered by Success
C28_Witness ==
    /\ ~demo /\ last.op = "send_auth_response" /\ last.before = "NotStarted"
    /\ last.wrote /\ last.read = "Success" /\ auth_status = "Done"

\* C29: start_session leaves auth_status as it was before the call,
\* whatever the response (and in demo mode); the status is NotStarted only
\* once the cancel_session that the greeter issues after an Error has run.
C29_StartSessionKeepsStatus ==
    /\ last.op = "start_session" => auth_status = last.before
    /\ (last.op = "cancel_session" /\ last.ctx = "start_error") =>
            auth_status = "NotStarted"

\* greetd has refused StartSession and the status is still Done
C29_Witness ==
    /\ last.op = "start_session" /\ last.read = "Error"
    /\ last.before = "Done" /\ auth_status = "Done"
    /\ mainPc.op = "cancel_session" /\ mainPc.ctx = "start_error"

\* the three operations login_click_handler chooses from
LoginOps == {"create_session", "send_auth_response", "start_session"}

\* the operation the match of login_click_handler leads to
LoginOpFor(st) ==
    CASE st = "NotStarted" -> "create_session"
      [] st = "InProgress" -> "send_auth_response"
      [] st = "Done" -> "start_session"

InInit == mainPc.ctx = "init"

\* C31: during initialization a CancelSession is issued before any
\* CreateSession can be sent: as long as init() has not finished its
\* cancel_session, no other operation has been called, nothing but a
\* CancelSession is on the socket, no task exists that could call the
\* client and no message is handled; every other operation is called after
\* init().  If that cancel fails with an I/O error, initialization goes on
\* (the process runs, the runtime is ready for messages) with NotStarted.
C31_CancelSessionFirst ==
    /\ InInit =>
          /\ mainPc.op = "cancel_session"
          /\ last.op \in {"-", "cancel_session"}
          /\ last.by \in {"-", "main"}
          /\ \A i \in 1..Len(wire) : wire[i] = Request("cancel_session")
          /\ bgWaiting = 0 /\ bgReading = 0 /\ cmdQ = <<>>
          /\ dropTask = "none"
    /\ last.op \in {"create_session", "send_auth_response", "start_session"}
          => ~InInit
    /\ (last.op = "cancel_session" /\ last.ctx = "init"
        /\ last.out \in {"io_write", "io_read"}) =>
          /\ auth_status = "NotStarted"
          /\ proc = "running"
          /\ mainPc = Idle

\* init()'s cancel_session failed at the read while a Login click was
\* already waiting
C31_Witness ==
    /\ last.op = "cancel_session" /\ last.ctx = "init"
    /\ last.out = "io_read" /\ last.wrote
    /\ inputQ # <<>> /\ Head(inputQ).type = "Login"
    /\ auth_status = "NotStarted" /\ mainPc = Idle

\* C32: after a Cancel input is handled, auth_status is NotStarted, the
\* input text is empty, the input mode is None and the message is the
\* default greeting, whether the CancelSession round trip succeeded, was
\* refused, or failed at the write or at the read; the runtime is ready for
\* the next message.
C32_CancelResets ==
    (/\ last.by = "main" /\ last.op = "cancel_session"
     /\ last.ctx = "cancel_click"
     /\ last.out \in {"Success", "Error", "io_write", "io_read"}) =>
        /\ auth_status = "NotStarted"
        /\ updates.input = ""
        /\ updates.input_mode = "None"
        /\ updates.message = "default"
        /\ proc = "running"
        /\ mainPc = Idle

\* a Cancel click during an authentication whose CancelSession failed at
\* the read
C32_Witness ==
    /\ last.by = "main" /\ last.op = "cancel_session"
    /\ last.ctx = "cancel_click" /\ last.out = "io_read"
    /\ last.before = "NotStarted" /\ auth_status = "NotStarted"
    /\ updates.input_mode = "None" /\ updates.message = "default"

\* C33: whenever the greeter shows an input prompt (input mode Secret or
\* Visible, as of the end of the last handler), auth_status is InProgress.
C33_PromptMeansInProgress ==
    (/\ proc = "running" /\ dropTask = "none"
     /\ mainPc.at = "idle"
     /\ updates.input_mode \in {"Secret", "Visible"}) =>
        auth_status = "InProgress"

\* C34 as stated: when the session is entered manually and the command
\* cannot be split, a Login input in NotStarted sends no CreateSession,
\* displays "Invalid session command" and leaves auth_status at NotStarted.
C34_InvalidManualSession ==
    (/\ last.ctx = "login" /\ last.before = "NotStarted"
     /\ BadManual(last.info)) =>
        /\ mainPc = Idle
        /\ updates.error = "Invalid session command"
        /\ auth_status = "NotStarted"

\* C34, corrected: the same, for a Login input that comes with a username
\* (selected, or entered manually); without a username create_session
\* returns before it looks at the session command: nothing is sent, the
\* status stays NotStarted and no error is displayed by this handler.
C34_InvalidManualSessionWithUser ==
    (/\ last.ctx = "login" /\ last.before = "NotStarted"
     /\ BadManual(last.info)) =>
        /\ mainPc = Idle
        /\ auth_status = "NotStarted"
        /\ HasUser(last.info) => updates.error = "Invalid session command"
        /\ (~HasUser(last.info) /\ timers = 0) => updates.error = "None"

\* a Login click in NotStarted with a username and a manual session
\* command that cannot be split: the error is shown, the handler is done
C34_Witness ==
    /\ last.ctx = "login" /\ last.before = "NotStarted"
    /\ last.info = "bad_manual"
    /\ mainPc = Idle /\ auth_status = "NotStarted"
    /\ updates.error = "Invalid session command"
    /\ timers = 1

\* C35: the cache's last user records a user who actually logged in: it is
\* set, and saved to the cache file, only for a login whose StartSession
\* request was answered with Success (after which the greeter exits),
\* never for an attempt whose StartSession failed.
C35_CacheOnlyAfterSuccess ==
    (cache.last_user = CurrentUser \/ cache.file = CurrentUser) =>
        mainPc.at = "exit"

\* C36: each display_error call schedules exactly one ClearErr, and a
\* displayed error stays visible until the ClearErr scheduled by that same
\* call is handled: a ClearErr scheduled for an earlier error never clears a
\* later error.
C36_ClearErrClearsItsOwnError ==
    /\ Len(errors.pending) <= errors.count
    /\ \A i, j \in 1..Len(errors.pending) :
          i # j => errors.pending[i] # errors.pending[j]
    /\ errors.ran.msg = "display_error" =>
          /\ errors.pending # <<>>
          /\ errors.pending[Len(errors.pending)] = errors.ran.timer
    /\ (errors.ran.msg = "ClearErr" /\ errors.ran.cleared # 0) =>
          errors.ran.cleared = errors.ran.timer

\* ---- C37 -----------------------------------------------------------------

\* the step just taken sent the display power command mode to an output
SentMode(mode) == idle.ran.sent = mode /\ idle.ran.to # {}

\* C37 (as stated): the display power commands strictly alternate and start
\* with Off; Off is sent only on an Idled event while is_idle is false, On only
\* on a Resumed event while is_idle is true; is_idle is true exactly between an
\* Off command and the next On command; a repeated Idled or Resumed event
\* sends no command.
C37_PowerCommandsAlternate ==
    /\ SentMode("Off") =>
          /\ idle.ran.event = "Idled" /\ ~idle.ran.was_idle
          /\ idle.ran.prev \in {"-", "On"}
    /\ SentMode("On") =>
          /\ idle.ran.event = "Resumed" /\ idle.ran.was_idle
          /\ idle.ran.prev = "Off"
    /\ idle.is_idle <=> idle.lastMode = "Off"
    /\ (idle.ran.event = "Idled" /\ idle.ran.was_idle) => idle.ran.to = {}
    /\ (idle.ran.event = "Resumed" /\ ~idle.ran.was_idle) => idle.ran.to = {}

\* C37 (corrected): Off is sent only on an Idled event while is_idle is false,
\* On only on a Resumed event while is_idle is true, each to exactly the
\* outputs bound at that moment; is_idle is true after an Idled event, false
\* after a Resumed event and unchanged by every other event; a repeated Idled
\* or Resumed event sends no command.
C37_PowerCommandsFollowIsIdle ==
    /\ SentMode("Off") => (idle.ran.event = "Idled" /\ ~idle.ran.was_idle)
    /\ SentMode("On") => (idle.ran.event = "Resumed" /\ idle.ran.was_idle)
    /\ (idle.ran.event = "Idled" /\ ~idle.ran.was_idle) =>
            (idle.ran.sent = "Off" /\ idle.ran.to = idle.outputs)
    /\ (idle.ran.event = "Resumed" /\ idle.ran.was_idle) =>
            (idle.ran.sent = "On" /\ idle.ran.to = idle.outputs)
    /\ idle.ran.event = "Idled" => idle.is_idle
    /\ idle.ran.event = "Resumed" => ~idle.is_idle
    /\ idle.ran.event \notin {"Idled", "Resumed"} =>
            (idle.is_idle = idle.ran.was_idle /\ idle.ran.to = {})
    /\ (idle.ran.event = "Idled" /\ idle.ran.was_idle) => idle.ran.to = {}
    /\ (idle.ran.event = "Resumed" /\ ~idle.ran.was_idle) => idle.ran.to = {}

\* an On command has followed an Off command
C37_Witness == SentMode("On") /\ idle.ran.prev = "Off"

\* ---- C38 -----------------------------------------------------------------

\* C38: whenever run_idle_loop has passed the check of the required protocols
\* and is in its dispatch loop, idle_notification is Some; and every Resumed
\* event destroys the old notification and registers a new one.
C38_NotificationRegistered ==
    /\ idle.phase = "loop" => idle.idle_notification
    /\ idle.ran.event = "Resumed" =>
            (idle.ran.destroyed /\ idle.ran.created /\ idle.idle_notification)

\* ---- C39 -----------------------------------------------------------------

\* the users of the mapping before the operation just run
UsersBefore == LruKeys(lru.ran.before)

\* C39: after Cache::new and any sequence of set_last_session and
\* get_last_session, the mapping holds at most CACHE_LIMIT entries; inserting
\* a new user at capacity evicts the user whose last use (set or get) is the
\* oldest, and nothing else is ever evicted.
C39_CacheLimitLru ==
    /\ lru.cap = CACHE_LIMIT
    /\ Len(lru.list) <= CACHE_LIMIT
    /\ Cardinality(LruKeys(lru.list)) = Len(lru.list)
    /\ lru.ran.op = "set" =>
          /\ lru.list # <<>> /\ lru.list[1].key = lru.ran.key
          /\ IF lru.ran.key \notin UsersBefore
                /\ Len(lru.ran.before) = CACHE_LIMIT
             THEN /\ lru.ran.evicted \in UsersBefore
                  /\ \A k \in UsersBefore :
                        lru.used[lru.ran.evicted] <= lru.used[k]
                  /\ LruKeys(lru.list) =
                        (UsersBefore \ {lru.ran.evicted}) \cup {lru.ran.key}
             ELSE /\ lru.ran.evicted = 0
                  /\ LruKeys(lru.list) = UsersBefore \cup {lru.ran.key}
    /\ lru.ran.op = "get" =>
          /\ lru.ran.evicted = 0
          /\ {lru.list[i] : i \in 1..Len(lru.list)} =
                {lru.ran.before[i] : i \in 1..Len(lru.ran.before)}

\* after at least two calls since the load, the set of a new user on a full
\* mapping has evicted the user at the least recently used end
C39_Witness ==
    /\ lru.ran.op = "set"
    /\ lru.ran.evicted # 0
    /\ Len(lru.ran.before) = CACHE_LIMIT
    /\ lru.ran.before[Len(lru.ran.before)].key = lru.ran.evicted
    /\ lru.clock > CACHE_LIMIT + 2

\* ---- C40 -----------------------------------------------------------------

\* C40: serializing the mapping as a map and deserializing it again yields
\* the same entries in the same recency order.
C40_RoundTrip ==
    lru.ran.op = "load" => lru.list = lru.ran.before

====
